---- MODULE Spec2Model ----
(***************************************************************************)
(* Race-control engine of src/ws_bridge.py: the scoring engine, the        *)
(* per-tag lap engines, the race manager, the collision engine and the     *)
(* admin commands.                                                         *)
(*                                                                         *)
(* Durations and timestamps are integers counted in half seconds (the      *)
(* smallest duration of the configuration, WALL_COLLISION_COOLDOWN, is     *)
(* 0.5 s), so 3.0 s is 6.  Penalty and bonus seconds use the same unit.    *)
(* Coordinates and distances are integer centimetres; a Euclidean          *)
(* distance is compared by its square.                                     *)
(***************************************************************************)
EXTENDS Integers, Sequences, FiniteSets, TLC

VARIABLES
    TOTAL_LAPS,                      \* dynamic configuration (module globals)
    WALL_HIT_PENALTY,
    CAR_COLLISION_ATTACKER_PENALTY,
    CAR_COLLISION_VICTIM_BONUS,
    CORNER_CUT_VOID_LAP,             \* static configuration, fixed at start
    CHECKPOINTS,
    track,                           \* Track: outer and inner polygon
    scoring,                         \* ScoringEngine: _history, _open, _feed
    engines,                         \* RaceManager._engines: tag -> LapEngine
    race,                            \* RaceManager: race_active, start, end
    race_armed,                      \* global race_armed
    tags,                            \* TagState per tag
    col,                             \* CollisionEngine
    clock,                           \* time.time()
    frames,                          \* packets (or scoring calls) so far
    new_evts,                        \* events of the last CollisionEngine.update
    call,                            \* the last operation and its arguments
    returned,                        \* events returned by the last operation
    emitted,                         \* per tag: lap events since the last reset
    tag_to_gp,                       \* global tag_to_gp
    admin_event,                     \* the admin_event broadcast last ("": none)
    slow_since,                      \* per tag: start of its run of slow frames
    stats,                           \* the stats message sent last (<<>>: none)
    threads,                         \* where the UDP thread and the admin handler are
    net                              \* connected_clients, the broadcasts, bridge_stats

cfgVars == <<TOTAL_LAPS, WALL_HIT_PENALTY, CAR_COLLISION_ATTACKER_PENALTY,
             CAR_COLLISION_VICTIM_BONUS>>
staticVars == <<CORNER_CUT_VOID_LAP, CHECKPOINTS, track>>
auxVars == <<tag_to_gp, admin_event, slow_since, stats, threads, net>>
vars == <<TOTAL_LAPS, WALL_HIT_PENALTY, CAR_COLLISION_ATTACKER_PENALTY,
          CAR_COLLISION_VICTIM_BONUS, CORNER_CUT_VOID_LAP, CHECKPOINTS, track,
          scoring, engines, race, race_armed, tags, col, clock, frames,
          new_evts, call, returned, emitted, tag_to_gp, admin_event,
          slow_since, stats, threads, net>>

----------------------------------------------------------------------------
(* Bounds of the model *)

MaxLapTime == 24
MaxTime == 8
MaxFrames == 5
MaxDatagrams == 2
MaxBoardTime == 1
MaxBoardOps == 4
MaxScoreOps == 5
MaxColTime == 8
MaxColFrames == 2

\* the tags registered by the program, and the tag of the lap engine that is
\* driven alone through the race manager
Tags == {0, 1}
LapTags == {0}

----------------------------------------------------------------------------
(* Configuration of src/ws_bridge.py, durations in half seconds *)

TOTAL_LAPS_DEFAULT == 10
MIN_LAPS_TO_QUALIFY == 3
MIN_LAP_TIME == 6
WALL_HIT_PENALTY_DEFAULT == 10
CAR_COLLISION_ATTACKER_PENALTY_DEFAULT == 10
CAR_COLLISION_VICTIM_BONUS_DEFAULT == 4
TAG_TIMEOUT == 10
START_LINE_X == 80
START_LINE_Y1 == 85
START_LINE_Y2 == 115
CHECKPOINT_RADIUS == 25
CORNER_CUT_PENALTY == 6
PIT_ZONE_MAX_SPEED_CM_S == 30
PIT_ZONE_OVERSPEED_PENALTY == 4
CAR_COLLISION_DISTANCE_CM == 25
CAR_COLLISION_COOLDOWN == 2
SPEED_DIFF_THRESHOLD == 10
WALL_TOLERANCE_CM == 5
WALL_COLLISION_COOLDOWN == 1
GHOSTING_TIME_THRESHOLD == 6
GHOSTING_SPEED_DIVISOR == 5
MAX_PLAUSIBLE_SPEED_CM_S == 278
PIT_ZONE_HALF_WIDTH == 50

\* float('inf'): larger than every finite lap time of the model
INF == 1000000
\* Python's None where a timestamp is expected
NoneT == -1

Max(a, b) == IF a >= b THEN a ELSE b
Abs(a) == IF a >= 0 THEN a ELSE -a

----------------------------------------------------------------------------
(* LapScore *)

LapScore(car_id, lap_number) ==
    [car_id |-> car_id, lap_number |-> lap_number, raw_time |-> 0,
     closed_at |-> NoneT, wall_hits |-> 0, atk_hits |-> 0, vic_hits |-> 0,
     corner_cuts |-> 0, overspeed |-> FALSE, voided |-> FALSE,
     pen |-> 0, bon |-> 0]

add_wall_hit(l) ==
    [l EXCEPT !.wall_hits = @ + 1, !.pen = @ + WALL_HIT_PENALTY]

add_attacker_penalty(l) ==
    [l EXCEPT !.atk_hits = @ + 1, !.pen = @ + CAR_COLLISION_ATTACKER_PENALTY]

add_victim_bonus_as_penalty(l) ==
    [l EXCEPT !.vic_hits = @ + 1, !.pen = @ + CAR_COLLISION_VICTIM_BONUS]

add_victim_bonus(l) ==
    [l EXCEPT !.vic_hits = @ + 1, !.bon = @ + CAR_COLLISION_VICTIM_BONUS]

add_corner_cut(l) ==
    IF CORNER_CUT_VOID_LAP
    THEN [l EXCEPT !.corner_cuts = @ + 1, !.voided = TRUE]
    ELSE [l EXCEPT !.corner_cuts = @ + 1, !.pen = @ + CORNER_CUT_PENALTY]

add_overspeed_every_frame(l) ==
    [l EXCEPT !.overspeed = TRUE, !.pen = @ + PIT_ZONE_OVERSPEED_PENALTY]

add_overspeed(l) ==
    IF ~l.overspeed
    THEN [l EXCEPT !.overspeed = TRUE, !.pen = @ + PIT_ZONE_OVERSPEED_PENALTY]
    ELSE l

elp_unclamped(l) ==
    IF l.voided THEN INF ELSE l.raw_time + l.pen - l.bon

elp(l) ==
    IF l.voided THEN INF ELSE Max(0, l.raw_time + l.pen - l.bon)

----------------------------------------------------------------------------
(* ScoringEngine: sc is [history, open, feed]; open is the dict _open, a    *)
(* function whose domain is the set of tags with an open LapScore.          *)

ScoringInit == [history |-> <<>>, open |-> <<>>, feed |-> <<>>]

\* _history.get(car_id, [])
history_of(sc, car_id) ==
    IF car_id \in DOMAIN sc.history THEN sc.history[car_id] ELSE <<>>

Put(d, k, v) == [x \in (DOMAIN d) \cup {k} |-> IF x = k THEN v ELSE d[x]]
Drop(d, k) == [x \in (DOMAIN d) \ {k} |-> d[x]]

FeedLine(kind, car_id, other, lap) ==
    [kind |-> kind, car |-> car_id, other |-> other, lap |-> lap]

open_lap(sc, car_id, lap_number) ==
    [sc EXCEPT !.open = Put(@, car_id, LapScore(car_id, lap_number))]

\* the LapScore close_lap appends to the history and returns
closed_lap(sc, car_id, raw_time, now) ==
    LET lap == IF car_id \in DOMAIN sc.open THEN sc.open[car_id]
               ELSE LapScore(car_id, 0)
    IN [lap EXCEPT !.raw_time = raw_time, !.closed_at = now]

close_lap(sc, car_id, raw_time, now) ==
    LET lap == closed_lap(sc, car_id, raw_time, now)
    IN [sc EXCEPT !.open = Drop(@, car_id),
                  !.history = Put(@, car_id, Append(history_of(sc, car_id), lap)),
                  !.feed = Append(@, FeedLine("LAP", car_id, -1, lap.lap_number))]

wall_hit(sc, car_id) ==
    IF car_id \in DOMAIN sc.open
    THEN [sc EXCEPT !.open[car_id] = add_wall_hit(@),
                    !.feed = Append(@, FeedLine("WALL", car_id, -1,
                                                sc.open[car_id].lap_number))]
    ELSE sc

car_collision_attacker_only(sc, attacker_id, victim_id) ==
    LET s1 == IF attacker_id \in DOMAIN sc.open
              THEN [sc EXCEPT !.open[attacker_id] = add_attacker_penalty(@)]
              ELSE sc
    IN [s1 EXCEPT !.feed = Append(@, FeedLine("CAR", attacker_id, victim_id, -1))]

car_collision(sc, attacker_id, victim_id) ==
    LET s1 == IF attacker_id \in DOMAIN sc.open
              THEN [sc EXCEPT !.open[attacker_id] = add_attacker_penalty(@)]
              ELSE sc
        s2 == IF victim_id \in DOMAIN s1.open
              THEN [s1 EXCEPT !.open[victim_id] = add_victim_bonus(@)]
              ELSE s1
    IN [s2 EXCEPT !.feed = Append(@, FeedLine("CAR", attacker_id, victim_id, -1))]

corner_cut(sc, car_id) ==
    IF car_id \in DOMAIN sc.open
    THEN [sc EXCEPT !.open[car_id] = add_corner_cut(@)]
    ELSE sc

overspeed(sc, car_id) ==
    IF car_id \in DOMAIN sc.open
    THEN [sc EXCEPT !.open[car_id] = add_overspeed(@)]
    ELSE sc

laps_done(sc, car_id) == Len(history_of(sc, car_id))

\* the keys of _history in the order the dict holds them: a tag enters it
\* at its first close_lap, which is also its first LAP line of the feed
RECURSIVE history_keys(_, _)
history_keys(feed, seen) ==
    IF feed = <<>> THEN <<>>
    ELSE LET f == Head(feed)
         IN IF f.kind = "LAP" /\ f.car \notin seen
            THEN <<f.car>> \o history_keys(Tail(feed), seen \cup {f.car})
            ELSE history_keys(Tail(feed), seen)

\* (a1, a2) <= (b1, b2) as Python compares tuples
TupleLE(a1, a2, b1, b2) == a1 < b1 \/ (a1 = b1 /\ a2 <= b2)

\* l.closed_at or 0
closed_or_0(l) == IF l.closed_at = NoneT THEN 0 ELSE l.closed_at

valid_laps(laps) == SelectSeq(laps, LAMBDA l : ~l.voided)

\* min(valid, key=lambda l: (l.elp, l.closed_at or 0)): the first of the
\* laps whose key is least
best_of(valid) ==
    LET least(i) == \A j \in DOMAIN valid :
                        TupleLE(elp(valid[i]), closed_or_0(valid[i]),
                                elp(valid[j]), closed_or_0(valid[j]))
    IN valid[CHOOSE i \in DOMAIN valid :
                 least(i) /\ \A j \in 1..(i - 1) : ~least(j)]

\* the row get_leaderboard builds for a tag
board_row(sc, cid) ==
    LET laps == history_of(sc, cid)
        best == best_of(valid_laps(laps))
    IN [car_id |-> cid, best_elp |-> elp(best), best_raw |-> best.raw_time,
        best_lap |-> best.lap_number, laps_done |-> Len(laps)]

\* rows.sort(key=lambda r: (r['best_elp'], r['best_lap'])): a stable sort
RECURSIVE sort_rows(_)
sort_rows(rows) ==
    IF rows = <<>> THEN <<>>
    ELSE LET r == rows[Len(rows)]
             sorted == sort_rows(SubSeq(rows, 1, Len(rows) - 1))
             k == Cardinality({i \in DOMAIN sorted :
                                  TupleLE(sorted[i].best_elp, sorted[i].best_lap,
                                          r.best_elp, r.best_lap)})
         IN SubSeq(sorted, 1, k) \o <<r>> \o SubSeq(sorted, k + 1, Len(sorted))

\* the rows of get_leaderboard before they are sorted
board_rows(sc) ==
    LET keys == SelectSeq(history_keys(sc.feed, {}),
                          LAMBDA cid : valid_laps(history_of(sc, cid)) # <<>>)
    IN [i \in DOMAIN keys |-> board_row(sc, keys[i])]

get_leaderboard_unsorted(sc) == board_rows(sc)

get_leaderboard(sc) == sort_rows(board_rows(sc))

\* get_feed(n): self._feed[-n:]
get_feed(sc, n) ==
    IF n = 0 THEN sc.feed
    ELSE SubSeq(sc.feed, Max(1, Len(sc.feed) - n + 1), Len(sc.feed))

----------------------------------------------------------------------------
(* LapEngine: one record per tag.  _side is "None" before the first update, *)
(* then "True" or "False" (x < START_LINE_X).  The start line is vertical.  *)

LapEngineInit ==
    [current_lap |-> 0, laps_done |-> 0, is_racing |-> FALSE,
     race_finished |-> FALSE, admin_armed |-> FALSE, side |-> "None",
     lap_start |-> NoneT, last_cross |-> 0, checkpoints |-> {},
     lap_times |-> <<>>]

arm(e) == [e EXCEPT !.admin_armed = TRUE]

get_side(x, y) == IF x < START_LINE_X THEN "True" ELSE "False"

within_bounds(x, y) == START_LINE_Y1 <= y /\ y <= START_LINE_Y2

\* checkpoint indices are those of the Python list, from 0
check_checkpoints(e, x, y) ==
    [e EXCEPT !.checkpoints = @ \cup
        {idx \in 0 .. (Len(CHECKPOINTS) - 1) :
            LET cp == CHECKPOINTS[idx + 1]
            IN (x - cp[1]) * (x - cp[1]) + (y - cp[2]) * (y - cp[2])
                   <= CHECKPOINT_RADIUS * CHECKPOINT_RADIUS}]

check_pit_speed(e, sc, car_id, x, y, speed) ==
    IF e.current_lap = 1
       /\ Abs(x - START_LINE_X) < PIT_ZONE_HALF_WIDTH
       /\ START_LINE_Y1 <= y /\ y <= START_LINE_Y2
       /\ speed > PIT_ZONE_MAX_SPEED_CM_S
    THEN overspeed(sc, car_id)
    ELSE sc

RECURSIVE corner_cuts(_, _, _)
corner_cuts(sc, car_id, n) ==
    IF n = 0 THEN sc ELSE corner_cuts(corner_cut(sc, car_id), car_id, n - 1)

\* one corner_cut per checkpoint of _all_cp not touched in this lap
validate_checkpoints(e, sc, car_id) ==
    corner_cuts(sc, car_id,
                Cardinality((0 .. (Len(CHECKPOINTS) - 1)) \ e.checkpoints))

LapEvent(type, car_id, lap, raw_time, lap_elp, now) ==
    [type |-> type, car_id |-> car_id, lap |-> lap, raw_time |-> raw_time,
     elp |-> lap_elp, time |-> now]

\* the result of a LapEngine call: the engine, the scoring engine it
\* changed, and the returned event (<<>> is None)
Res(e, sc, ev) == [eng |-> e, sc |-> sc, event |-> ev]

cooldown_blocks_inclusive(e, now) == now - e.last_cross <= MIN_LAP_TIME

cooldown_blocks(e, now) == now - e.last_cross < MIN_LAP_TIME

race_is_over_late(e) == e.laps_done > TOTAL_LAPS

race_is_over(e) == e.laps_done >= TOTAL_LAPS

\* _handle_crossing of a racing engine, up to and including
\* scoring.close_lap: the scoring engine after it, raw and the lap's ELP
close_crossing(e1, sc, car_id, now) ==
    LET raw == now - e1.lap_start
        sc1 == validate_checkpoints(e1, sc, car_id)
        lap_score == closed_lap(sc1, car_id, raw, now)
    IN [sc |-> close_lap(sc1, car_id, raw, now), raw |-> raw,
        elp |-> elp(lap_score)]

\* the rest of _handle_crossing, from self._lap_times.append(raw) on
count_crossing(e1, sc2, car_id, raw, lap_elp, now) ==
    LET e2 == [e1 EXCEPT !.lap_times = Append(@, raw), !.laps_done = @ + 1]
    IN IF race_is_over(e2)
       THEN Res([e2 EXCEPT !.is_racing = FALSE, !.race_finished = TRUE], sc2,
                <<LapEvent("race_finish", car_id, e2.current_lap, raw,
                           lap_elp, now)>>)
       ELSE LET e3 == [e2 EXCEPT !.current_lap = @ + 1, !.lap_start = now,
                                 !.checkpoints = {}]
            IN Res(e3, open_lap(sc2, car_id, e3.current_lap),
                   <<LapEvent("lap_done", car_id, e2.current_lap, raw,
                              lap_elp, now)>>)

handle_crossing(e, sc, car_id, now) ==
    IF cooldown_blocks(e, now) THEN Res(e, sc, <<>>)
    ELSE
    LET e1 == [e EXCEPT !.last_cross = now] IN
    IF ~e1.is_racing
    THEN IF ~e1.admin_armed THEN Res(e1, sc, <<>>)
         ELSE LET e2 == [e1 EXCEPT !.is_racing = TRUE, !.current_lap = 1,
                                   !.lap_start = now, !.checkpoints = {}]
              IN Res(e2, open_lap(sc, car_id, 1),
                     <<LapEvent("race_start", car_id, 1, NoneT, NoneT, now)>>)
    ELSE
    LET h == close_crossing(e1, sc, car_id, now)
    IN count_crossing(e1, h.sc, car_id, h.raw, h.elp, now)

crossing_detected_outside_band(e, x, y) ==
    e.side # "None" /\ e.side # get_side(x, y)

\* crossed and in_bounds, for an engine that has a stored side
crossing_detected(e, x, y) ==
    e.side # "None" /\ e.side # get_side(x, y) /\ within_bounds(x, y)

lap_update(e, sc, car_id, x, y, speed, now) ==
    LET e1 == IF e.is_racing THEN check_checkpoints(e, x, y) ELSE e
        sc1 == IF e.is_racing THEN check_pit_speed(e1, sc, car_id, x, y, speed)
               ELSE sc
        new_side == get_side(x, y)
    IN IF e1.side = "None" THEN Res([e1 EXCEPT !.side = new_side], sc1, <<>>)
       ELSE IF crossing_detected(e1, x, y)
            THEN handle_crossing([e1 EXCEPT !.side = new_side], sc1, car_id, now)
            ELSE Res([e1 EXCEPT !.side = new_side], sc1, <<>>)

lap_reset_keep_armed(e) ==
    [LapEngineInit EXCEPT !.admin_armed = e.admin_armed]

lap_reset(e) == LapEngineInit

----------------------------------------------------------------------------
(* RaceManager *)

RaceInit == [race_active |-> FALSE, race_start_time |-> NoneT,
             race_end_time |-> NoneT]

\* RaceManager.update's bookkeeping of the race clock after the engine ran
race_after(r, engs, ev, now) ==
    IF ev = <<>> THEN r
    ELSE LET r1 == IF ev[1].type = "race_start" /\ ~r.race_active
                   THEN [r EXCEPT !.race_active = TRUE, !.race_start_time = now]
                   ELSE r
         IN IF ev[1].type = "race_finish"
               /\ \A t \in DOMAIN engs : engs[t].race_finished
            THEN [r1 EXCEPT !.race_active = FALSE, !.race_end_time = now]
            ELSE r1

----------------------------------------------------------------------------
(* TagState.  x and y are the filtered position update_position stores;    *)
(* buffered says that _pos_buf holds a sample (its last one was taken at    *)
(* last_update).                                                            *)

TagStateInit == [x |-> 0, y |-> 0, speed_cms |-> 0, status |-> FALSE,
                 last_update |-> 0, buffered |-> FALSE]

\* speed is the speed the last two samples give; it is stored when there
\* are two samples and time has passed between them
update_position(tg, x, y, speed, now) ==
    [tg EXCEPT !.x = x, !.y = y, !.status = TRUE, !.last_update = now,
               !.buffered = TRUE,
               !.speed_cms = IF tg.buffered /\ now > tg.last_update
                             THEN speed ELSE @]

is_active(tg, wall_now) ==
    tg.status /\ wall_now - tg.last_update < TAG_TIMEOUT

tag_reset(tg) == [tg EXCEPT !.speed_cms = 0, !.status = FALSE,
                            !.buffered = FALSE]

----------------------------------------------------------------------------
(* Track geometry.  The track is a rectangle with a rectangular island.     *)

TRACK_OUTER == << <<50, 50>>, <<150, 50>>, <<150, 250>>, <<50, 250>> >>
TRACK_INNER == << <<105, 120>>, <<125, 120>>, <<125, 180>>, <<105, 180>> >>

DefaultTrack == [outer |-> TRACK_OUTER, inner |-> TRACK_INNER]

has_width == Len(track.inner) > 0

\* the distance of (px, py) to the segment a-b is at most tol: the
\* projection parameter t = num / denom clamped to [0, 1] selects an end
\* point or the foot of the perpendicular, whose squared distance is
\* cross^2 / denom
segment_within(px, py, a, b, tol) ==
    LET dx == b[1] - a[1]
        dy == b[2] - a[2]
        denom == dx * dx + dy * dy
        num == (px - a[1]) * dx + (py - a[2]) * dy
        cross == (px - a[1]) * dy - (py - a[2]) * dx
    IN IF denom = 0 \/ num <= 0
       THEN (px - a[1]) * (px - a[1]) + (py - a[2]) * (py - a[2]) <= tol * tol
       ELSE IF num >= denom
       THEN (px - b[1]) * (px - b[1]) + (py - b[2]) * (py - b[2]) <= tol * tol
       ELSE cross * cross <= tol * tol * denom

\* dist_to_boundary(px, py, pts) <= tol
dist_to_boundary_within(px, py, pts, tol) ==
    /\ Len(pts) >= 2
    /\ \E i \in 1 .. Len(pts) :
           segment_within(px, py, pts[i], pts[(i % Len(pts)) + 1], tol)

----------------------------------------------------------------------------
(* CollisionEngine.  _car_cd is keyed by the set {a, b}.  _spd_buf is kept  *)
(* as the sum and the number of its samples: it holds the last 300         *)
(* samples, more than a run of the model appends.                           *)

CollisionInit ==
    [pos |-> <<>>, speeds |-> <<>>, laps |-> <<>>, racing |-> <<>>,
     car_cd |-> <<>>, wall_cd |-> <<>>, ghost_t |-> <<>>,
     spd_sum |-> 0, spd_len |-> 0, events |-> <<>>, anomalies |-> <<>>]

col_reset_oldest(c) ==
    [c EXCEPT !.events = IF @ = <<>> THEN @ ELSE Tail(@), !.anomalies = <<>>,
              !.car_cd = <<>>, !.wall_cd = <<>>, !.ghost_t = <<>>,
              !.spd_sum = 0, !.spd_len = 0]

col_reset(c) ==
    [c EXCEPT !.events = <<>>, !.anomalies = <<>>, !.car_cd = <<>>,
              !.wall_cd = <<>>, !.ghost_t = <<>>, !.spd_sum = 0,
              !.spd_len = 0]

\* CollisionEngine.wall_hits(cid) and car_events(cid), as build_state_message
\* counts them
wall_hits(c, cid) ==
    {i \in DOMAIN c.events :
        c.events[i].type = "wall" /\ c.events[i].car_id = cid}
car_events(c, cid) ==
    {i \in DOMAIN c.events :
        c.events[i].type = "car"
        /\ (c.events[i].attacker = cid \/ c.events[i].victim = cid)}

\* d.get(k, default)
Get(d, k, default) == IF k \in DOMAIN d THEN d[k] ELSE default

CarEvent(attacker, victim, lap, now) ==
    [type |-> "car", attacker |-> attacker, victim |-> victim, car_id |-> -1,
     wall |-> "", lap |-> lap, time |-> now]

WallEvent(cid, wall, lap, now) ==
    [type |-> "wall", attacker |-> -1, victim |-> -1, car_id |-> cid,
     wall |-> wall, lap |-> lap, time |-> now]

\* the engine after _is_ghost(cid) and what it returns
below_ghost_speed(c, cid) ==
    LET spd == Get(c.speeds, cid, 0)
    IN IF c.spd_len > 0
       THEN GHOSTING_SPEED_DIVISOR * spd * c.spd_len < c.spd_sum
       ELSE GHOSTING_SPEED_DIVISOR * spd < 1

is_ghost(c, cid, wall_now) ==
    LET slow == below_ghost_speed(c, cid)
    IN IF slow
       THEN IF cid \notin DOMAIN c.ghost_t
            THEN [col |-> [c EXCEPT !.ghost_t = Put(@, cid, wall_now)],
                  ghost |-> FALSE]
            ELSE [col |-> c,
                  ghost |-> wall_now - c.ghost_t[cid] > GHOSTING_TIME_THRESHOLD]
       ELSE [col |-> [c EXCEPT !.ghost_t = Drop(@, cid)], ghost |-> FALSE]

car_cooling_as_wall(c, key, now) ==
    now - Get(c.car_cd, key, 0) < WALL_COLLISION_COOLDOWN

car_cooling(c, key, now) ==
    now - Get(c.car_cd, key, 0) < CAR_COLLISION_COOLDOWN

wall_cooling_never(c, cid, now) ==
    now - Get(c.wall_cd, cid, 0) < 0

wall_cooling(c, cid, now) ==
    now - Get(c.wall_cd, cid, 0) < WALL_COLLISION_COOLDOWN

attacker_of_faster(a, b, sa, sb) == IF sa < sb THEN b ELSE a

\* the attacker of a car event of a and b, a before b in the snapshot
attacker_of(a, b, sa, sb) ==
    IF Abs(sa - sb) >= SPEED_DIFF_THRESHOLD /\ sa < sb THEN b ELSE a

\* the state a frame of CollisionEngine.update threads through its checks:
\* the engine, the scoring engine and new_evts
Frame(c, sc, evts) == [col |-> c, sc |-> sc, events |-> evts]

check_car(st, a, b, now, wall_now) ==
    LET ga == is_ghost(st.col, a, wall_now)
        gb == is_ghost(ga.col, b, wall_now)
        c1 == IF ga.ghost THEN ga.col ELSE gb.col
        key == {a, b}
    IN IF ga.ghost \/ gb.ghost THEN Frame(c1, st.sc, st.events)
       ELSE IF a \notin DOMAIN c1.pos \/ b \notin DOMAIN c1.pos
       THEN Frame(c1, st.sc, st.events)
       ELSE
       LET pa == c1.pos[a]
           pb == c1.pos[b]
           sa == Get(c1.speeds, a, 0)
           sb == Get(c1.speeds, b, 0)
           attacker == attacker_of(a, b, sa, sb)
           victim == IF attacker = a THEN b ELSE a
       IN IF (pa[1] - pb[1]) * (pa[1] - pb[1]) + (pa[2] - pb[2]) * (pa[2] - pb[2])
                 > CAR_COLLISION_DISTANCE_CM * CAR_COLLISION_DISTANCE_CM
          THEN Frame(c1, st.sc, st.events)
          ELSE IF car_cooling(c1, key, now) THEN Frame(c1, st.sc, st.events)
          ELSE Frame([c1 EXCEPT !.car_cd = Put(@, key, now)],
                     car_collision(st.sc, attacker, victim),
                     Append(st.events,
                            CarEvent(attacker, victim,
                                     Get(c1.laps, attacker, 0), now)))

check_wall(st, cid, x, y, lap, now) ==
    IF ~has_width THEN st
    ELSE IF wall_cooling(st.col, cid, now) THEN st
    ELSE
    LET wall == IF dist_to_boundary_within(x, y, track.outer, WALL_TOLERANCE_CM)
                THEN "outer"
                ELSE IF dist_to_boundary_within(x, y, track.inner,
                                                WALL_TOLERANCE_CM)
                THEN "inner" ELSE ""
    IN IF wall = "" THEN st
       ELSE Frame([st.col EXCEPT !.wall_cd = Put(@, cid, now)],
                  wall_hit(st.sc, cid),
                  Append(st.events, WallEvent(cid, wall, lap, now)))

\* the first loop of update, for one car of the snapshot
ingest(c, cid, d, now) ==
    LET c1 == [c EXCEPT !.pos = Put(@, cid, <<d.x, d.y, now>>),
                        !.speeds = Put(@, cid, d.speed),
                        !.laps = Put(@, cid, d.lap),
                        !.racing = Put(@, cid, d.racing)]
        c2 == IF d.speed > 0
              THEN [c1 EXCEPT !.spd_sum = @ + d.speed, !.spd_len = @ + 1]
              ELSE c1
    IN IF d.speed > MAX_PLAUSIBLE_SPEED_CM_S
       THEN [c2 EXCEPT !.anomalies =
                Append(@, [car_id |-> cid, speed |-> d.speed, time |-> now])]
       ELSE c2

\* the keys of a dict whose keys were inserted in ascending order
RECURSIVE Keys(_)
Keys(S) ==
    IF S = {} THEN <<>>
    ELSE LET m == CHOOSE x \in S : \A y \in S : x <= y
         IN <<m>> \o Keys(S \ {m})

RECURSIVE ingest_all(_, _, _, _)
ingest_all(c, cars, ids, now) ==
    IF ids = <<>> THEN c
    ELSE ingest_all(ingest(c, Head(ids), cars[Head(ids)], now), cars,
                    Tail(ids), now)

\* the loops over i and j > i of update, from the pair (i, j) on
RECURSIVE check_cars(_, _, _, _, _, _)
check_cars(st, ids, i, j, now, wall_now) ==
    IF i > Len(ids) THEN st
    ELSE IF j > Len(ids) THEN check_cars(st, ids, i + 1, i + 2, now, wall_now)
    ELSE check_cars(check_car(st, ids[i], ids[j], now, wall_now), ids, i,
                    j + 1, now, wall_now)

RECURSIVE check_walls(_, _, _, _)
check_walls(st, cars, ids, now) ==
    IF ids = <<>> THEN st
    ELSE LET d == cars[Head(ids)]
             s1 == IF d.racing
                   THEN check_wall(st, Head(ids), d.x, d.y, d.lap, now)
                   ELSE st
         IN check_walls(s1, cars, Tail(ids), now)

\* CollisionEngine.update(cars, now): the engine and the scoring engine
\* after it, and the new_evts it returns
col_update(c, sc, cars, now, wall_now) ==
    LET ids == Keys(DOMAIN cars)
        c1 == ingest_all(c, cars, ids, now)
        racing_ids == SelectSeq(ids, LAMBDA t : cars[t].racing)
        s1 == check_cars(Frame(c1, sc, <<>>), racing_ids, 1, 2, now, wall_now)
        s2 == check_walls(s1, cars, ids, now)
    IN Frame([s2.col EXCEPT !.events = @ \o s2.events], s2.sc, s2.events)

----------------------------------------------------------------------------
(* Inputs of the model *)

\* positions a tag reports: left and right of the start line inside its
\* band, right of it outside the band (on the checkpoint), and at the wall
Points == {<<70, 100>>, <<90, 100>>, <<90, 200>>, <<55, 100>>}
Speeds == {5, 40}

\* the static configurations: no checkpoint; one checkpoint with a time
\* penalty for missing it; one checkpoint with the lap voided
StaticConfigs ==
    {[void |-> FALSE, checkpoints |-> <<>>],
     [void |-> FALSE, checkpoints |-> << <<90, 200>> >>],
     [void |-> TRUE, checkpoints |-> << <<90, 200>> >>]}

\* the tag_map of an admin_start payload
TagMap == [t \in Tags |-> 40 + t]

\* admin_start payloads; 0 stands for a missing or zero field, text is the
\* set of race_config fields whose value is a non-numeric string, and an
\* empty tag_map is <<>>
AdminPayloads ==
    {[total_laps |-> 0, wall |-> 0, atk |-> 0, vic |-> 0, text |-> {},
      tag_map |-> <<>>],
     [total_laps |-> 1, wall |-> 0, atk |-> 0, vic |-> 0, text |-> {},
      tag_map |-> TagMap],
     [total_laps |-> 2, wall |-> 14, atk |-> 12, vic |-> 6, text |-> {},
      tag_map |-> TagMap]}

\* a race on the track: the repository's configuration (no checkpoint), an
\* admin_start that sets every field, and tags reported at the outer wall
\* left of the start line and in mid-track right of it, moving at one speed
\* once they have been seen twice
RaceConfigs == {[void |-> FALSE, checkpoints |-> <<>>]}
RacePayloads == {[total_laps |-> 2, wall |-> 14, atk |-> 12, vic |-> 6,
                  text |-> {}, tag_map |-> TagMap]}
RacePoints == {<<55, 100>>, <<90, 100>>}
RaceSpeeds == {40}

\* the operation executed last: its name, the tag it was about (-1: none),
\* its second tag (the victim of car_collision; -1: none) and whether
\* LapEngine.update detected a crossing of the start line in it
Call(op, tag, other, crossing) ==
    [op |-> op, tag |-> tag, other |-> other, crossing |-> crossing]

----------------------------------------------------------------------------
(* Initial state: the module's globals after import *)

\* the UDP thread is in recvfrom ("recv") or inside _handle_crossing after
\* scoring.close_lap ("closing", with its locals car_id, raw and now and the
\* closed lap's ELP); the admin handler is between commands ("idle") or
\* inside the reset command after race_mgr.reset() ("reset")
ThreadsIdle ==
    [udp |-> "recv", admin |-> "idle", car_id |-> -1, raw |-> 0, now |-> 0,
     elp |-> 0]

\* the websockets that may connect
Clients == {1, 2}

\* the websockets whose peer may stop reading
Slow == {1}

\* a message handed to broadcast: its type and the frame it belongs to
Message(type, frame) == [type |-> type, frame |-> frame]

\* connected_clients, the state of each connection ("none": not connected
\* yet, "ok", "blocked": the peer does not read and the write buffer is
\* full, "closed": the peer is gone), the broadcast coroutines not finished
\* yet in the order they were scheduled, what was written to each
\* connection, the outcome of the broadcast that ended last, the number of
\* datagrams received when each client connected, the submissions to the
\* lap API whose thread has not ended yet, and bridge_stats
NetInit ==
    [clients |-> {}, conn |-> [c \in Clients |-> "none"], tasks |-> <<>>,
     inbox |-> [c \in Clients |-> <<>>], done |-> <<>>,
     since |-> [c \in Clients |-> NoneT], posts |-> <<>>,
     udp_packets_total |-> 0, udp_packets_valid |-> 0,
     udp_packets_invalid |-> 0, ws_messages_sent |-> 0,
     ws_clients_total |-> 0]

\* post_lap_to_api(tag_id, lap_score): nothing without a gp_id for the tag;
\* else the payload is built and a thread is started that submits it.  Of
\* the payload the gp_id and the lap number are kept.
post_lap_to_api(n, gp_map, tag_id, lap) ==
    IF tag_id \notin DOMAIN gp_map \/ gp_map[tag_id] = 0 THEN n
    ELSE [n EXCEPT !.posts =
             Append(@, [gp_id |-> gp_map[tag_id], lap_number |-> lap.lap_number])]

\* the call of post_lap_to_api in a close_lap that took the scoring engine
\* from sc to sc2
persisted(n, gp_map, sc, sc2) ==
    LET closed == {t \in DOMAIN sc2.history :
                      Len(sc2.history[t]) > Len(history_of(sc, t))}
    IN IF closed = {} THEN n
       ELSE LET t == CHOOSE u \in closed : TRUE
            IN post_lap_to_api(n, gp_map, t, sc2.history[t][Len(sc2.history[t])])

\* the scoring engine after the thread of a submission has ended, the
\* submission saved, refused by the server or timed out: _post touches
\* nothing but its own locals
after_post_undoing_failed(sc, outcome) ==
    IF outcome = "saved" \/ sc.feed = <<>> THEN sc
    ELSE [sc EXCEPT !.feed = SubSeq(@, 1, Len(@) - 1)]

after_post(sc, outcome) == sc

\* a broadcast coroutine that has not run yet
Task(m) ==
    [msg |-> m, pc |-> "ready", size |-> 0, start |-> {}, seen |-> {},
     dead |-> {}, at |-> 0, ahead |-> 0]

Without(seq, i) == [j \in 1..(Len(seq) - 1) |-> IF j < i THEN seq[j] ELSE seq[j + 1]]

MinOf(S) == CHOOSE c \in S : \A d \in S : c <= d

\* the coroutines suspended in a send to client c
Waiting(n, c) == {j \in DOMAIN n.tasks : n.tasks[j].pc = "send" /\ n.tasks[j].at = c}

\* broadcast from the next() of its for loop on, for the coroutine t
\* at position i of the tasks: the iterator of a set raises RuntimeError
\* when the size of the set is not the size it had when the loop started,
\* which ends the coroutine before difference_update; a send to a closed
\* connection raises and the client joins dead; a send to a connection
\* that is blocked, or that an earlier send still waits on, is written
\* behind it and suspends the coroutine; any other send returns at once
\* what the coroutine t leaves behind when it ends: whether it raised,
\* the clients that were in the set from its start to its end and that no
\* send was attempted to, and the clients whose send raised
Outcome(n, t, raised) ==
    [raised |-> raised, missed |-> (t.start \cap n.clients) \ t.seen,
     dead |-> t.dead]

RECURSIVE broadcast_loop(_, _, _)
broadcast_loop(n, t, i) ==
    IF Cardinality(n.clients) # t.size
    THEN [n EXCEPT !.tasks = Without(@, i),
                   !.done = Outcome(n, t, TRUE)]
    ELSE IF n.clients \ t.seen = {}
    THEN [n EXCEPT !.tasks = Without(@, i),
                   !.clients = @ \ t.dead,
                   !.done = Outcome(n, t, FALSE)]
    ELSE LET c == MinOf(n.clients \ t.seen)
             t1 == [t EXCEPT !.seen = @ \cup {c}]
             written == [n EXCEPT !.inbox[c] = Append(@, t.msg)]
         IN IF n.conn[c] = "closed"
            THEN broadcast_loop(n, [t1 EXCEPT !.dead = @ \cup {c}], i)
            ELSE IF n.conn[c] = "blocked" \/ Waiting(n, c) # {}
            THEN [written EXCEPT !.tasks[i] =
                     [t1 EXCEPT !.pc = "send", !.at = c,
                                !.ahead = Cardinality(Waiting(n, c))]]
            ELSE broadcast_loop(written, t1, i)

\* broadcast(message) run from its first line by the coroutine at
\* position i, up to its first suspension or its end
broadcast_start(n, i) ==
    IF n.clients = {}
    THEN [n EXCEPT !.tasks = Without(@, i)]
    ELSE broadcast_loop([n EXCEPT !.ws_messages_sent = @ + 1],
                        [n.tasks[i] EXCEPT !.size = Cardinality(n.clients),
                                           !.start = n.clients], i)

\* await broadcast(message) inside a handler: the coroutine runs at once
broadcast(n, m) ==
    broadcast_start([n EXCEPT !.tasks = Append(@, Task(m))], Len(n.tasks) + 1)

\* asyncio.run_coroutine_threadsafe(broadcast(message), event_loop)
run_coroutine_threadsafe(n, m) == [n EXCEPT !.tasks = Append(@, Task(m))]

\* scheduled with the state_update queued for every frame
scheduled_state_always(n, frame, events) ==
    IF n.clients = {} THEN n
    ELSE run_coroutine_threadsafe(
             run_coroutine_threadsafe(n, Message("tag_position", frame)),
             Message("state_update", frame))

\* udp_receiver after process_race_update: what it schedules for a frame
\* whose game_events are events
scheduled(n, frame, events) ==
    IF n.clients = {} THEN n
    ELSE LET n1 == run_coroutine_threadsafe(n, Message("tag_position", frame))
         IN IF events # <<>>
            THEN run_coroutine_threadsafe(n1, Message("state_update", frame))
            ELSE n1

\* udp_receiver counting a datagram it accepted
counted(n) ==
    [n EXCEPT !.udp_packets_total = @ + 1, !.udp_packets_valid = @ + 1]

InitOn(registered, t0, configs, tracks) ==
    /\ TOTAL_LAPS = TOTAL_LAPS_DEFAULT
    /\ WALL_HIT_PENALTY = WALL_HIT_PENALTY_DEFAULT
    /\ CAR_COLLISION_ATTACKER_PENALTY = CAR_COLLISION_ATTACKER_PENALTY_DEFAULT
    /\ CAR_COLLISION_VICTIM_BONUS = CAR_COLLISION_VICTIM_BONUS_DEFAULT
    /\ \E c \in configs :
          /\ CORNER_CUT_VOID_LAP = c.void
          /\ CHECKPOINTS = c.checkpoints
    /\ track \in tracks
    /\ scoring = ScoringInit
    /\ engines = [t \in registered |-> LapEngineInit]
    /\ race = RaceInit
    /\ race_armed = FALSE
    /\ tags = [t \in registered |-> TagStateInit]
    /\ col = CollisionInit
    /\ clock = t0
    /\ frames = 0
    /\ new_evts = <<>>
    /\ call = Call("init", -1, -1, FALSE)
    /\ returned = <<>>
    /\ emitted = [t \in registered |-> <<>>]
    /\ tag_to_gp = <<>>
    /\ admin_event = ""
    /\ slow_since = [t \in registered |-> NoneT]
    /\ stats = <<>>
    /\ threads = ThreadsIdle
    /\ net = NetInit

InitWith(registered, t0, configs) ==
    InitOn(registered, t0, configs, {DefaultTrack})

\* the program starts at a time of day later than every cooldown; a lap
\* engine driven through its interface is given timestamps from 0 on
InitRace == InitWith(Tags, MIN_LAP_TIME, RaceConfigs)
InitLap == InitWith(LapTags, 0, StaticConfigs)

----------------------------------------------------------------------------
(* Operations *)

\* time passes between two operations, by d half seconds
Tick(d, limit) ==
    /\ clock + d <= limit
    /\ clock' = clock + d
    /\ call' = Call("tick", -1, -1, FALSE)
    /\ UNCHANGED <<cfgVars, staticVars, scoring, engines, race, race_armed,
                   tags, col, frames, new_evts, returned, emitted, auxVars>>

\* RaceManager.update(car_id, x, y, speed, now) and what it returns
race_update(car_id, x, y, speed, now) ==
    LET r == lap_update(engines[car_id], scoring, car_id, x, y, speed, now)
        engs == [engines EXCEPT ![car_id] = r.eng]
    IN [engines |-> engs, sc |-> r.sc,
        race |-> race_after(race, engs, r.event, now), event |-> r.event]

Log(car_id, ev) ==
    IF ev = <<>> THEN emitted
    ELSE [emitted EXCEPT ![car_id] =
             Append(@, [type |-> ev[1].type, lap |-> ev[1].lap])]

RaceManagerUpdate(car_id, x, y, speed) ==
    LET r == race_update(car_id, x, y, speed, clock)
    IN /\ engines' = r.engines
       /\ scoring' = r.sc
       /\ race' = r.race
       /\ returned' = r.event
       /\ emitted' = Log(car_id, r.event)
       /\ call' = Call("update", car_id, -1, crossing_detected(engines[car_id], x, y))
       /\ net' = persisted(net, tag_to_gp, scoring, r.sc)
       /\ UNCHANGED <<cfgVars, staticVars, race_armed, tags, col, clock,
                      frames, new_evts, tag_to_gp, admin_event, slow_since,
                      stats, threads>>

\* process_race_update's snapshot of the active tags
cars_data(tgs, engs, wall_now) ==
    [t \in {u \in DOMAIN tgs : is_active(tgs[u], wall_now)} |->
        [x |-> tgs[t].x, y |-> tgs[t].y, speed |-> tgs[t].speed_cms,
         lap |-> engs[t].current_lap, racing |-> engs[t].is_racing]]

\* udp_receiver, one valid packet of tag car_id located at (x, y):
\* update_position, then process_race_update
Packet(car_id, x, y, speed) ==
    /\ frames < MaxFrames
    /\ LET tg == update_position(tags[car_id], x, y, speed, clock)
           tgs == [tags EXCEPT ![car_id] = tg]
       IN /\ tags' = tgs
          /\ frames' = frames + 1
          /\ call' = Call("packet", car_id, -1,
                          crossing_detected(engines[car_id], tg.x, tg.y))
          /\ IF ~is_active(tg, clock)
             THEN /\ returned' = <<>>
                  /\ new_evts' = <<>>
                  /\ net' = scheduled(counted(net), frames + 1, <<>>)
                  /\ UNCHANGED <<engines, scoring, race, col, emitted>>
             ELSE LET r == race_update(car_id, tg.x, tg.y, tg.speed_cms, clock)
                      cars == cars_data(tgs, r.engines, clock)
                      u == col_update(col, r.sc, cars, clock, clock)
                  IN /\ engines' = r.engines
                     /\ race' = r.race
                     /\ scoring' = u.sc
                     /\ col' = u.col
                     /\ new_evts' = u.events
                     /\ returned' = r.event
                     /\ emitted' = Log(car_id, r.event)
                     /\ net' = scheduled(
                                   persisted(counted(net), tag_to_gp, scoring, r.sc),
                                   frames + 1, r.event \o u.events)
    /\ UNCHANGED <<cfgVars, staticVars, race_armed, clock, tag_to_gp,
                   admin_event, slow_since, stats, threads>>

\* apply_race_config
config_value(v, default) == IF v > 0 THEN v ELSE default

\* RaceManager.reset
race_reset_engines == [t \in DOMAIN engines |-> lap_reset(engines[t])]
scoring_reset_keep_history(sc) == [sc EXCEPT !.open = <<>>, !.feed = <<>>]

scoring_reset(sc) == [sc EXCEPT !.history = <<>>, !.open = <<>>, !.feed = <<>>]

\* apply_race_config(race_config, new_laps): the globals after it, and
\* whether float() raised on a non-numeric value, which leaves the globals
\* assigned before it and skips the rest
apply_race_config(p) ==
    LET laps == config_value(p.total_laps, TOTAL_LAPS_DEFAULT)
        raised_at == IF "wall" \in p.text THEN 1
                     ELSE IF "atk" \in p.text THEN 2
                     ELSE IF "vic" \in p.text THEN 3 ELSE 4
    IN [total_laps |-> laps,
        wall |-> IF raised_at > 1
                 THEN config_value(p.wall, WALL_HIT_PENALTY_DEFAULT)
                 ELSE WALL_HIT_PENALTY,
        atk |-> IF raised_at > 2
                THEN config_value(p.atk, CAR_COLLISION_ATTACKER_PENALTY_DEFAULT)
                ELSE CAR_COLLISION_ATTACKER_PENALTY,
        vic |-> IF raised_at > 3
                THEN config_value(p.vic, CAR_COLLISION_VICTIM_BONUS_DEFAULT)
                ELSE CAR_COLLISION_VICTIM_BONUS,
        raised |-> raised_at < 4]

\* handle_client, msg_type == 'admin_start'; an exception of
\* apply_race_config is caught by the handler's except clause, after which
\* the handler waits for the next message
CmdAdminStart(p) ==
    LET c == apply_race_config(p)
    IN /\ TOTAL_LAPS' = c.total_laps
       /\ WALL_HIT_PENALTY' = c.wall
       /\ CAR_COLLISION_ATTACKER_PENALTY' = c.atk
       /\ CAR_COLLISION_VICTIM_BONUS' = c.vic
       /\ call' = Call("admin_start", -1, -1, FALSE)
       /\ returned' = <<>>
       /\ IF c.raised
          THEN UNCHANGED <<engines, scoring, race, race_armed, emitted,
                           tag_to_gp, admin_event, net>>
          ELSE /\ tag_to_gp' = IF p.tag_map # <<>> THEN p.tag_map ELSE tag_to_gp
               /\ engines' = [t \in DOMAIN engines |-> arm(lap_reset(engines[t]))]
               /\ scoring' = scoring_reset(scoring)
               /\ race' = RaceInit
               /\ race_armed' = TRUE
               /\ admin_event' = "race_armed"
               /\ net' = broadcast(net, Message("admin_event", NoneT))
               /\ emitted' = [t \in DOMAIN emitted |-> <<>>]
       /\ UNCHANGED <<staticVars, tags, col, clock, frames, new_evts,
                      slow_since, stats, threads>>

\* handle_client, msg_type == 'reset'
CmdReset ==
    /\ engines' = race_reset_engines
    /\ scoring' = scoring_reset(scoring)
    /\ race' = RaceInit
    /\ col' = col_reset(col)
    /\ race_armed' = FALSE
    /\ tags' = [t \in DOMAIN tags |-> tag_reset(tags[t])]
    /\ TOTAL_LAPS' = TOTAL_LAPS_DEFAULT
    /\ WALL_HIT_PENALTY' = WALL_HIT_PENALTY_DEFAULT
    /\ CAR_COLLISION_ATTACKER_PENALTY' = CAR_COLLISION_ATTACKER_PENALTY_DEFAULT
    /\ CAR_COLLISION_VICTIM_BONUS' = CAR_COLLISION_VICTIM_BONUS_DEFAULT
    /\ call' = Call("reset", -1, -1, FALSE)
    /\ returned' = <<>>
    /\ emitted' = [t \in DOMAIN emitted |-> <<>>]
    /\ tag_to_gp' = <<>>
    /\ admin_event' = "race_reset"
    /\ net' = broadcast(net, Message("admin_event", NoneT))
    /\ UNCHANGED <<staticVars, clock, frames, new_evts, slow_since, stats,
                   threads>>

\* handle_client, msg_type == 'get_stats': the configuration the stats
\* message carries
get_stats ==
    [total_laps |-> TOTAL_LAPS,
     tag_to_gp |-> tag_to_gp,
     race_config |-> [wall_hit_penalty |-> WALL_HIT_PENALTY,
                      attacker_penalty |-> CAR_COLLISION_ATTACKER_PENALTY,
                      victim_bonus |-> CAR_COLLISION_VICTIM_BONUS]]

CmdGetStats ==
    /\ stats' = get_stats
    /\ call' = Call("get_stats", -1, -1, FALSE)
    /\ UNCHANGED <<cfgVars, staticVars, scoring, engines, race, race_armed,
                   tags, col, clock, frames, new_evts, returned, emitted,
                   tag_to_gp, admin_event, slow_since, threads, net>>

----------------------------------------------------------------------------
(* The race manager driven through its interface: update, admin_start and  *)
(* reset, one call at a time.                                              *)

\* lap timestamps are sampled every half MIN_LAP_TIME: gaps below, equal to
\* and above the cooldown all occur
LapStep == MIN_LAP_TIME \div 2

NextLap ==
    \/ Tick(LapStep, MaxLapTime)
    \/ \E t \in LapTags, p \in Points, s \in Speeds :
           RaceManagerUpdate(t, p[1], p[2], s)
    \/ \E p \in AdminPayloads : CmdAdminStart(p)
    \/ CmdReset

SpecLap == InitLap /\ [][NextLap]_vars

----------------------------------------------------------------------------
(* A race: packets of the registered tags, admin_start and reset in any    *)
(* order, at most MaxFrames packets until the clock shows MaxTime.          *)

NextRace ==
    \/ Tick(1, MaxTime)
    \/ \E t \in Tags, p \in RacePoints, s \in RaceSpeeds : Packet(t, p[1], p[2], s)
    \/ \E p \in RacePayloads : CmdAdminStart(p)
    \/ CmdReset

SpecRace == InitRace /\ [][NextRace]_vars

----------------------------------------------------------------------------
(* The admin commands: admin_start with payloads that set every field, that *)
(* leave fields out or give non-positive values, or that give a penalty as  *)
(* a non-numeric string; reset; get_stats; and the packets of one tag, at   *)
(* most MaxFrames of them, that start its race and take it to the wall.     *)

\* 0 stands for a field that is missing, None or 0; text holds the fields
\* given as a non-numeric string
ConfigPayloads ==
    {[total_laps |-> 2, wall |-> 14, atk |-> 12, vic |-> 6, text |-> {},
      tag_map |-> TagMap],
     [total_laps |-> -1, wall |-> 0, atk |-> -2, vic |-> 8, text |-> {},
      tag_map |-> <<>>],
     [total_laps |-> 3, wall |-> 16, atk |-> 0, vic |-> 2, text |-> {"atk"},
      tag_map |-> TagMap]}

InitAdmin == InitWith(LapTags, MIN_LAP_TIME, RaceConfigs)

NextAdmin ==
    \/ \E t \in LapTags, p \in RacePoints, s \in RaceSpeeds : Packet(t, p[1], p[2], s)
    \/ \E p \in ConfigPayloads : CmdAdminStart(p)
    \/ CmdReset
    \/ CmdGetStats

SpecAdmin == InitAdmin /\ [][NextAdmin]_vars

----------------------------------------------------------------------------
(* The UDP thread and the admin handler side by side.  udp_receiver runs in *)
(* a thread of its own and handle_client on the event loop's thread, with   *)
(* no lock between them: the interpreter may switch from one to the other   *)
(* between any two statements.  A packet is processed in one step or, when  *)
(* it closes a lap, in two, the switch falling after scoring.close_lap; the *)
(* reset command runs in two steps, the switch falling after                *)
(* race_mgr.reset().                                                        *)

\* udp_receiver, a valid packet of a racing tag that crosses the start line
\* after the cooldown: update_position, process_race_update and
\* LapEngine.update down to scoring.close_lap in _handle_crossing
PacketClose(car_id, x, y, speed) ==
    /\ threads.udp = "recv"
    /\ frames < MaxFrames
    /\ LET tg == update_position(tags[car_id], x, y, speed, clock)
           e == engines[car_id]
           e1 == check_checkpoints(e, tg.x, tg.y)
           sc1 == check_pit_speed(e1, scoring, car_id, tg.x, tg.y, tg.speed_cms)
           e2 == [e1 EXCEPT !.side = get_side(tg.x, tg.y), !.last_cross = clock]
           h == close_crossing(e2, sc1, car_id, clock)
       IN /\ is_active(tg, clock)
          /\ e.is_racing
          /\ crossing_detected(e1, tg.x, tg.y)
          /\ ~cooldown_blocks(e1, clock)
          /\ tags' = [tags EXCEPT ![car_id] = tg]
          /\ engines' = [engines EXCEPT ![car_id] = e2]
          /\ scoring' = h.sc
          /\ threads' = [threads EXCEPT !.udp = "closing", !.car_id = car_id,
                                        !.raw = h.raw, !.now = clock,
                                        !.elp = h.elp]
    /\ frames' = frames + 1
    /\ call' = Call("packet_close", car_id, -1, TRUE)
    /\ net' = persisted(counted(net), tag_to_gp, scoring, scoring')
    /\ UNCHANGED <<cfgVars, staticVars, race, race_armed, col, clock, new_evts,
                   returned, emitted, tag_to_gp, admin_event, slow_since,
                   stats>>

\* the rest of that packet: _handle_crossing from self._lap_times.append on,
\* RaceManager.update's handling of the event, and the collision update of
\* process_race_update
PacketRest ==
    /\ threads.udp = "closing"
    /\ LET car_id == threads.car_id
           r == count_crossing(engines[car_id], scoring, car_id, threads.raw,
                               threads.elp, threads.now)
           engs == [engines EXCEPT ![car_id] = r.eng]
           cars == cars_data(tags, engs, clock)
           u == IF DOMAIN cars # {}
                THEN col_update(col, r.sc, cars, threads.now, clock)
                ELSE Frame(col, r.sc, <<>>)
       IN /\ engines' = engs
          /\ race' = race_after(race, engs, r.event, threads.now)
          /\ scoring' = u.sc
          /\ col' = u.col
          /\ new_evts' = u.events
          /\ returned' = r.event
          /\ emitted' = Log(car_id, r.event)
          /\ call' = Call("packet_rest", car_id, -1, TRUE)
          /\ net' = scheduled(net, frames, r.event \o u.events)
    /\ threads' = [ThreadsIdle EXCEPT !.admin = threads.admin]
    /\ UNCHANGED <<cfgVars, staticVars, race_armed, tags, clock, frames,
                   tag_to_gp, admin_event, slow_since, stats>>

\* handle_client, msg_type == 'reset': race_mgr.reset()
ResetRace ==
    /\ threads.admin = "idle"
    /\ engines' = race_reset_engines
    /\ scoring' = scoring_reset(scoring)
    /\ race' = RaceInit
    /\ threads' = [threads EXCEPT !.admin = "reset"]
    /\ call' = Call("race_mgr.reset", -1, -1, FALSE)
    /\ UNCHANGED <<cfgVars, staticVars, race_armed, tags, col, clock, frames,
                   new_evts, returned, emitted, tag_to_gp, admin_event,
                   slow_since, stats, net>>

\* the rest of the reset command, from col_eng.reset() to the broadcast
ResetRest ==
    /\ threads.admin = "reset"
    /\ col' = col_reset(col)
    /\ race_armed' = FALSE
    /\ tags' = [t \in DOMAIN tags |-> tag_reset(tags[t])]
    /\ TOTAL_LAPS' = TOTAL_LAPS_DEFAULT
    /\ WALL_HIT_PENALTY' = WALL_HIT_PENALTY_DEFAULT
    /\ CAR_COLLISION_ATTACKER_PENALTY' = CAR_COLLISION_ATTACKER_PENALTY_DEFAULT
    /\ CAR_COLLISION_VICTIM_BONUS' = CAR_COLLISION_VICTIM_BONUS_DEFAULT
    /\ call' = Call("reset", -1, -1, FALSE)
    /\ returned' = <<>>
    /\ emitted' = [t \in DOMAIN emitted |-> <<>>]
    /\ tag_to_gp' = <<>>
    /\ admin_event' = "race_reset"
    /\ threads' = [threads EXCEPT !.admin = "idle"]
    /\ net' = broadcast(net, Message("admin_event", NoneT))
    /\ UNCHANGED <<staticVars, engines, scoring, race, clock, frames, new_evts,
                   slow_since, stats>>

InitThreads == InitWith(LapTags, MIN_LAP_TIME, RaceConfigs)

NextThreads ==
    \/ Tick(MIN_LAP_TIME, MaxLapTime)
    \/ \E t \in LapTags, p \in RacePoints, s \in RaceSpeeds :
           threads.udp = "recv" /\ Packet(t, p[1], p[2], s)
    \/ \E t \in LapTags, p \in RacePoints, s \in RaceSpeeds :
           PacketClose(t, p[1], p[2], s)
    \/ PacketRest
    \/ \E p \in RacePayloads : threads.admin = "idle" /\ CmdAdminStart(p)
    \/ ResetRace
    \/ ResetRest

SpecThreads == InitThreads /\ [][NextThreads]_vars

----------------------------------------------------------------------------
(* The bridge with its clients: datagrams arrive, websockets connect,      *)
(* stop reading, read again and go away, and the event loop runs the       *)
(* broadcast coroutines one slice at a time, from a start or a resumption  *)
(* to the next suspension or the end.                                      *)

\* a step of the event loop or of a peer that changes only net
NetStep(n) ==
    /\ net' = n
    /\ UNCHANGED <<cfgVars, staticVars, scoring, engines, race, race_armed,
                   tags, col, clock, frames, new_evts, call, returned, emitted,
                   tag_to_gp, admin_event, slow_since, stats, threads>>

\* handle_client up to its receive loop: the websocket joins
\* connected_clients and is sent the connection message and the state
Connect(c) ==
    /\ net.conn[c] = "none"
    /\ NetStep([net EXCEPT !.clients = @ \cup {c},
                           !.conn[c] = "ok",
                           !.ws_clients_total = @ + 1,
                           !.since[c] = net.udp_packets_total,
                           !.inbox[c] = <<Message("connection", NoneT),
                                          Message("state_update", NoneT)>>])

\* the peer of c stops reading: writes to c no longer drain
Stall(c) ==
    /\ net.conn[c] = "ok"
    /\ NetStep([net EXCEPT !.conn[c] = "blocked"])

\* the peer of c reads again
Drain(c) ==
    /\ net.conn[c] = "blocked"
    /\ NetStep([net EXCEPT !.conn[c] = "ok"])

\* the connection of c is lost
Close(c) ==
    /\ net.conn[c] \in {"ok", "blocked"}
    /\ NetStep([net EXCEPT !.conn[c] = "closed"])

\* handle_client leaving its receive loop on a closed connection: the
\* finally clause discards the websocket
HandlerExit(c) ==
    /\ net.conn[c] = "closed"
    /\ c \in net.clients
    /\ NetStep([net EXCEPT !.clients = @ \ {c}])

\* the event loop starts the coroutine scheduled first
BroadcastStart ==
    /\ \E i \in DOMAIN net.tasks : net.tasks[i].pc = "ready"
    /\ LET i == MinOf({j \in DOMAIN net.tasks : net.tasks[j].pc = "ready"})
       IN NetStep(broadcast_start(net, i))

\* the event loop resumes the coroutine at position i, whose send has
\* completed or raised: the sends waiting behind it move up
BroadcastResume(i) ==
    /\ i \in DOMAIN net.tasks
    /\ net.tasks[i].pc = "send"
    /\ net.tasks[i].ahead = 0
    /\ net.conn[net.tasks[i].at] # "blocked"
    /\ LET t == net.tasks[i]
           c == t.at
           t1 == [t EXCEPT !.pc = "run", !.at = 0,
                           !.dead = IF net.conn[c] = "closed"
                                    THEN @ \cup {c} ELSE @]
           n1 == [net EXCEPT !.tasks =
                     [j \in DOMAIN net.tasks |->
                         IF j = i THEN t1
                         ELSE IF net.tasks[j].pc = "send" /\ net.tasks[j].at = c
                         THEN [net.tasks[j] EXCEPT !.ahead = @ - 1]
                         ELSE net.tasks[j]]]
       IN NetStep(broadcast_loop(n1, t1, i))

\* the datagrams udp_receiver does not accept
Rejects == {"bad_json", "bad_id", "no_id", "short_range", "unknown_tag", "no_fix"}

\* bridge_stats after a datagram of that kind: json.loads raising
\* JSONDecodeError leaves the loop body through continue, int() raising
\* on the id through the except clause of the loop, both after the total
\* alone was counted
rejected(n, kind) ==
    [n EXCEPT !.udp_packets_total = @ + 1,
              !.udp_packets_invalid =
                  IF kind \in {"bad_json", "bad_id"} THEN @ ELSE @ + 1]

\* udp_receiver, a datagram that is not accepted
Reject(kind) ==
    /\ frames < MaxDatagrams
    /\ frames' = frames + 1
    /\ net' = rejected(net, kind)
    /\ UNCHANGED <<cfgVars, staticVars, scoring, engines, race, race_armed,
                   tags, col, clock, new_evts, call, returned, emitted,
                   tag_to_gp, admin_event, slow_since, stats, threads>>

InitFanout == InitWith(LapTags, MIN_LAP_TIME, RaceConfigs)

NextFanout ==
    \/ \E t \in LapTags, p \in RacePoints, s \in RaceSpeeds :
           frames < MaxDatagrams /\ Packet(t, p[1], p[2], s)
    \/ \E k \in Rejects : Reject(k)
    \/ \E p \in RacePayloads : ~race_armed /\ CmdAdminStart(p)
    \/ \E c \in Clients : Connect(c)
    \/ \E c \in Slow : Stall(c)
    \/ \E c \in Clients : Drain(c)
    \/ \E c \in Clients : Close(c)
    \/ \E c \in Clients : HandlerExit(c)
    \/ BroadcastStart
    \/ \E i \in 1..(2 * MaxDatagrams + 1) : BroadcastResume(i)

SpecFanout == InitFanout /\ [][NextFanout]_vars

----------------------------------------------------------------------------
(* Laps closed with and without a gp_id for the tag, and the threads of    *)
(* post_lap_to_api ending one by one, each with the lap saved, refused by   *)
(* the server or timed out.                                                 *)

Outcomes == {"saved", "http_error", "timeout"}

\* _post, the thread of the submission at position i, ends
PostDone(i, outcome) ==
    /\ i \in DOMAIN net.posts
    /\ net' = [net EXCEPT !.posts = Without(@, i)]
    /\ scoring' = after_post(scoring, outcome)
    /\ UNCHANGED <<cfgVars, staticVars, engines, race, race_armed, tags, col,
                   clock, frames, new_evts, call, returned, emitted, tag_to_gp,
                   admin_event, slow_since, stats, threads>>

PersistPoints == {<<70, 100>>, <<90, 100>>}
PersistPayloads ==
    {[total_laps |-> 2, wall |-> 0, atk |-> 0, vic |-> 0, text |-> {},
      tag_map |-> <<>>],
     [total_laps |-> 2, wall |-> 0, atk |-> 0, vic |-> 0, text |-> {},
      tag_map |-> TagMap]}

NextPersist ==
    \/ Tick(LapStep, MaxLapTime)
    \/ \E t \in LapTags, p \in PersistPoints : RaceManagerUpdate(t, p[1], p[2], 5)
    \/ \E p \in PersistPayloads : CmdAdminStart(p)
    \/ \E i \in 1..MaxLapTime, o \in Outcomes : PostDone(i, o)

SpecPersist == InitLap /\ [][NextPersist]_vars

----------------------------------------------------------------------------
(* One tag driven by packets on both sides of the start line, inside and   *)
(* outside its band, with the admin commands.                               *)

CrossPoints == {<<70, 100>>, <<90, 100>>, <<70, 200>>, <<90, 200>>}

InitCross == InitWith(LapTags, MIN_LAP_TIME, RaceConfigs)

NextCross ==
    \/ Tick(LapStep, MaxLapTime)
    \/ \E t \in LapTags, p \in CrossPoints, s \in RaceSpeeds :
           Packet(t, p[1], p[2], s)
    \/ \E p \in RacePayloads : CmdAdminStart(p)
    \/ CmdReset

SpecCross == InitCross /\ [][NextCross]_vars

\* the event loop runs every callback that is ready: a coroutine that was
\* scheduled is started, a coroutine whose send has completed or raised is
\* resumed, a handler whose connection is closed leaves.  Nothing obliges
\* a peer to read.
SpecFanoutFair ==
    /\ SpecFanout
    /\ WF_vars(BroadcastStart)
    /\ WF_vars(\E i \in 1..(2 * MaxDatagrams + 1) : BroadcastResume(i))
    /\ WF_vars(\E c \in Clients : HandlerExit(c))

----------------------------------------------------------------------------
(* The collision engine driven through its interface: update with a         *)
(* snapshot of both tags, at most MaxColFrames frames until the clock shows *)
(* MaxColTime, on a track with or without an inner polygon.  The lap        *)
(* engines open their laps before the first frame.                          *)

ColTags == {0, 1}
Tracks == {DefaultTrack, [outer |-> TRACK_OUTER, inner |-> <<>>]}

\* tag 0 is reported at WALL_TOLERANCE_CM from the outer wall, one
\* centimetre further in, or at WALL_TOLERANCE_CM from the inner wall; tag 1
\* in mid-track, CAR_COLLISION_DISTANCE_CM from the first of these points,
\* nearer to the second and far from the third
ColPoints == {<<55, 100>>, <<56, 100>>, <<100, 150>>}
ColPoint1 == <<70, 120>>
\* tag 0 is slower than tag 1 by SPEED_DIFF_THRESHOLD, slower by less, or
\* faster by more
ColSpeeds == {26, 30, 50}
ColSpeed1 == SPEED_DIFF_THRESHOLD + 26
\* the positions and speeds tag 0 is reported with
ColCars ==
    {c \in ColPoints \X ColSpeeds :
        \/ c[1] = <<55, 100>> /\ c[2] # 30
        \/ c[1] # <<55, 100>> /\ c[2] = 30}

Car(p, speed, lap, racing) ==
    [x |-> p[1], y |-> p[2], speed |-> speed, lap |-> lap, racing |-> racing]

InitCollision == InitOn(ColTags, MIN_LAP_TIME, RaceConfigs, Tracks)

\* a frame of the run of frames in which tag t was below the ghost speed
SlowSince(c, cars, now) ==
    [t \in DOMAIN slow_since |->
        IF t \in DOMAIN cars /\ below_ghost_speed(c, t)
        THEN IF slow_since[t] # NoneT THEN slow_since[t] ELSE now
        ELSE NoneT]

\* CollisionEngine.update(cars, now)
ColUpdate(cars, limit) ==
    /\ frames < limit
    /\ frames' = frames + 1
    /\ LET u == col_update(col, scoring, cars, clock, clock)
       IN /\ col' = u.col
          /\ scoring' = u.sc
          /\ new_evts' = u.events
          /\ slow_since' = SlowSince(u.col, cars, clock)
    /\ call' = Call("col_update", -1, -1, FALSE)
    /\ UNCHANGED <<cfgVars, staticVars, engines, race, race_armed, tags, clock,
                   returned, emitted, tag_to_gp, admin_event, stats, threads,
                   net>>

RECURSIVE open_laps(_, _)
open_laps(sc, ids) ==
    IF ids = <<>> THEN sc
    ELSE open_laps(open_lap(sc, Head(ids), 1), Tail(ids))

\* ScoringEngine.open_lap(t, 1) for every tag, as the lap engines call it
\* at race_start
ColOpenLaps ==
    /\ frames = 0
    /\ scoring.open = <<>>
    /\ scoring' = open_laps(scoring, Keys(DOMAIN engines))
    /\ call' = Call("open_lap", -1, -1, FALSE)
    /\ UNCHANGED <<cfgVars, staticVars, engines, race, race_armed, tags, col,
                   clock, frames, new_evts, returned, emitted, auxVars>>

NextCollision ==
    \/ Tick(1, MaxColTime)
    \/ ColOpenLaps
    \/ \E c \in ColCars, r0 \in BOOLEAN, r1 \in BOOLEAN :
           ColUpdate([t \in ColTags |->
                         IF t = 0 THEN Car(c[1], c[2], 1, r0)
                         ELSE Car(ColPoint1, ColSpeed1, 1, r1)], MaxColFrames)

SpecCollision == InitCollision /\ [][NextCollision]_vars

----------------------------------------------------------------------------
(* The collision engine over a longer time: both tags stay within           *)
(* CAR_COLLISION_DISTANCE_CM of each other, tag 0 races in every frame, and *)
(* each frame reports each tag nearly stopped or at speed; between frames   *)
(* the clock advances by more than half of GHOSTING_TIME_THRESHOLD.         *)

MaxGhostFrames == 3
GhostStep == GHOSTING_TIME_THRESHOLD - CAR_COLLISION_COOLDOWN
MaxGhostTime == MIN_LAP_TIME + 2 * GhostStep + (MaxGhostFrames - 3)
GhostPoint0 == <<55, 100>>
GhostSpeeds == {4, 40}

InitGhost == InitOn(ColTags, MIN_LAP_TIME, RaceConfigs, {DefaultTrack})

NextGhost ==
    \/ Tick(GhostStep, MaxGhostTime)
    \/ ColOpenLaps
    \/ \E s0 \in GhostSpeeds, s1 \in GhostSpeeds, r1 \in BOOLEAN :
           ColUpdate([t \in ColTags |->
                         IF t = 0 THEN Car(GhostPoint0, s0, 1, TRUE)
                         ELSE Car(ColPoint1, s1, 1, r1)], MaxGhostFrames)

SpecGhost == InitGhost /\ [][NextGhost]_vars

----------------------------------------------------------------------------
(* The scoring engine driven through its interface: open_lap, close_lap,   *)
(* wall_hit, car_collision, corner_cut and overspeed in any order, at most *)
(* MaxScoreOps calls.                                                      *)

ScoreTags == {0, 1}
LapNumbers == {1, 2}
\* raw lap times a lap engine can pass: never below MIN_LAP_TIME
RawTimes == {MIN_LAP_TIME, MIN_LAP_TIME + 1}

InitScoring == InitWith(ScoreTags, 0, StaticConfigs)

ScoringCall(sc, op, tag, other) ==
    /\ frames < MaxScoreOps
    /\ frames' = frames + 1
    /\ scoring' = sc
    /\ call' = Call(op, tag, other, FALSE)
    /\ net' = persisted(net, tag_to_gp, scoring, sc)
    /\ UNCHANGED <<cfgVars, staticVars, engines, race, race_armed, tags, col,
                   clock, new_evts, returned, emitted, tag_to_gp, admin_event,
                   slow_since, stats, threads>>

ScOpenLap(t, n) == ScoringCall(open_lap(scoring, t, n), "open_lap", t, -1)
ScCloseLap(t, raw) ==
    ScoringCall(close_lap(scoring, t, raw, clock), "close_lap", t, -1)
ScWallHit(t) == ScoringCall(wall_hit(scoring, t), "wall_hit", t, -1)
ScCarCollision(a, v) ==
    ScoringCall(car_collision(scoring, a, v), "car_collision", a, v)
ScCornerCut(t) == ScoringCall(corner_cut(scoring, t), "corner_cut", t, -1)
ScOverspeed(t) == ScoringCall(overspeed(scoring, t), "overspeed", t, -1)

NextScoring ==
    \/ \E t \in ScoreTags, n \in LapNumbers : ScOpenLap(t, n)
    \/ \E t \in ScoreTags, raw \in RawTimes : ScCloseLap(t, raw)
    \/ \E t \in ScoreTags : ScWallHit(t)
    \/ \E a \in ScoreTags : \E v \in ScoreTags \ {a} : ScCarCollision(a, v)
    \/ \E t \in ScoreTags : ScCornerCut(t)
    \/ \E t \in ScoreTags : ScOverspeed(t)

SpecScoring == InitScoring /\ [][NextScoring]_vars

\* laps opened, hit, cut and closed at different instants, for the
\* leaderboard: at most MaxBoardOps calls until the clock shows MaxBoardTime
NextBoard ==
    \/ Tick(1, MaxBoardTime)
    \/ /\ frames < MaxBoardOps
       /\ \/ \E t \in ScoreTags, n \in LapNumbers : ScOpenLap(t, n)
          \/ \E t \in ScoreTags, raw \in RawTimes : ScCloseLap(t, raw)
          \/ \E t \in ScoreTags : ScWallHit(t)
          \/ \E t \in ScoreTags : ScCornerCut(t)

SpecBoard == InitScoring /\ [][NextBoard]_vars

----------------------------------------------------------------------------
(* Properties of the lap engine, checked under SpecLap *)

NonVoided(laps) == Cardinality({i \in 1 .. Len(laps) : ~laps[i].voided})

\* the last operation was an update of tag t in which a crossing was detected
CrossingBy(c, t) == c.op = "update" /\ c.tag = t /\ c.crossing

\* C1: once a tag's engine has finished (race_finish emitted, race_finished
\* set), it is not racing and has no open LapScore, until reset/admin_start
\* clears race_finished.
C1_FinishedAbsorbing ==
    \A t \in DOMAIN engines :
        engines[t].race_finished =>
            ~engines[t].is_racing /\ t \notin DOMAIN scoring.open

\* C1, as a step: a crossing by a finished engine returns no event.
C1_FinishedSilent ==
    [][\A t \in DOMAIN engines :
          (engines[t].race_finished /\ CrossingBy(call', t)) => returned' = <<>>]_vars

\* C2: per tag, the lap numbers of the events emitted since the last reset
\* never decrease, race_start carries lap 1.
C2_LapOrder ==
    \A t \in DOMAIN emitted :
        \A i, j \in 1 .. Len(emitted[t]) :
            /\ (i < j => emitted[t][i].lap <= emitted[t][j].lap)
            /\ (emitted[t][i].type = "race_start" => emitted[t][i].lap = 1)

\* C3: a detected crossing less than MIN_LAP_TIME after the last accepted one
\* returns no event, opens and closes no LapScore and leaves lap_start and
\* last_cross alone; one MIN_LAP_TIME or more after it is accepted
\* (last_cross becomes now).
C3_Cooldown ==
    [][\A t \in DOMAIN engines :
          CrossingBy(call', t) =>
              IF clock - engines[t].last_cross < MIN_LAP_TIME
              THEN /\ returned' = <<>>
                   /\ scoring'.history = scoring.history
                   /\ DOMAIN scoring'.open = DOMAIN scoring.open
                   /\ \A k \in DOMAIN scoring.open :
                          scoring'.open[k].lap_number = scoring.open[k].lap_number
                   /\ engines'[t].lap_start = engines[t].lap_start
                   /\ engines'[t].last_cross = engines[t].last_cross
                   /\ engines'[t].is_racing = engines[t].is_racing
                   /\ engines'[t].laps_done = engines[t].laps_done
              ELSE engines'[t].last_cross = clock]_vars

\* C3's case: a lap was closed exactly MIN_LAP_TIME after it was opened, and
\* the last operation was a crossing ignored inside the cooldown, a positive
\* time after the last accepted crossing.
C3_Witness ==
    \E t \in DOMAIN engines :
        /\ CrossingBy(call, t)
        /\ returned = <<>>
        /\ engines[t].is_racing
        /\ engines[t].last_cross < clock
        /\ clock - engines[t].last_cross < MIN_LAP_TIME
        /\ \E i \in 1 .. Len(engines[t].lap_times) :
               engines[t].lap_times[i] = MIN_LAP_TIME

\* C4: the first detected crossing of an armed engine with no accepted
\* crossing so far starts the race, whatever the timestamp: the engine is
\* racing, lap 1 is open, lap_start is now and race_start is returned.
NeverCrossed(e) == e.last_cross = 0 /\ ~e.is_racing /\ e.laps_done = 0

C4_FirstCrossingStarts ==
    [][\A t \in DOMAIN engines :
          (CrossingBy(call', t) /\ engines[t].admin_armed
              /\ NeverCrossed(engines[t])) =>
              /\ engines'[t].is_racing
              /\ engines'[t].current_lap = 1
              /\ engines'[t].lap_start = clock
              /\ t \in DOMAIN scoring'.open
              /\ scoring'.open[t].lap_number = 1
              /\ Len(returned') = 1
              /\ returned'[1].type = "race_start"]_vars

\* C5: an accepted crossing while racing closes the open lap with
\* raw = now - lap_start and adds one to laps_done; it returns race_finish
\* exactly when laps_done has then reached TOTAL_LAPS (the engine is
\* finished and no lap is open), and otherwise lap_done, with a fresh
\* LapScore number current_lap + 1 open and lap_start = now.
C5_AcceptedCrossing ==
    [][\A t \in DOMAIN engines :
          (CrossingBy(call', t) /\ engines[t].is_racing
              /\ clock - engines[t].last_cross >= MIN_LAP_TIME) =>
              LET e == engines[t]
                  f == engines'[t]
                  h == history_of(scoring', t)
              IN /\ t \in DOMAIN scoring.open
                 /\ Len(h) = Len(history_of(scoring, t)) + 1
                 /\ h[Len(h)].lap_number = scoring.open[t].lap_number
                 /\ h[Len(h)].lap_number = e.current_lap
                 /\ h[Len(h)].raw_time = clock - e.lap_start
                 /\ f.laps_done = e.laps_done + 1
                 /\ Len(returned') = 1
                 /\ returned'[1].raw_time = clock - e.lap_start
                 /\ returned'[1].lap = e.current_lap
                 /\ IF f.laps_done >= TOTAL_LAPS
                    THEN /\ returned'[1].type = "race_finish"
                         /\ f.race_finished /\ ~f.is_racing
                         /\ t \notin DOMAIN scoring'.open
                    ELSE /\ returned'[1].type = "lap_done"
                         /\ f.is_racing /\ ~f.race_finished
                         /\ f.current_lap = e.current_lap + 1
                         /\ f.lap_start = clock
                         /\ t \in DOMAIN scoring'.open
                         /\ scoring'.open[t] = LapScore(t, e.current_lap + 1)]_vars

\* C5's case: a race_finish has just been returned after a lap_done.
C5_Witness ==
    \E t \in DOMAIN engines :
        /\ CrossingBy(call, t)
        /\ Len(returned) = 1
        /\ returned[1].type = "race_finish"
        /\ \E i \in 1 .. Len(emitted[t]) : emitted[t][i].type = "lap_done"

\* C6: for every tag, laps_done of the lap engine and of the scoring engine
\* (its summary and leaderboard row use the same count) equal the number of
\* closed LapScores of the tag's history that are not voided.
C6_LapsDoneNonVoided ==
    \A t \in DOMAIN engines :
        /\ engines[t].laps_done = NonVoided(history_of(scoring, t))
        /\ laps_done(scoring, t) = NonVoided(history_of(scoring, t))

----------------------------------------------------------------------------
(* Properties of the scoring engine, checked under SpecScoring *)

ClosedLaps ==
    UNION {{scoring.history[t][i] : i \in 1 .. Len(scoring.history[t])} :
           t \in DOMAIN scoring.history}

\* penalty and bonus seconds a LapScore's counters account for
CountedPenalty(l) ==
    l.wall_hits * WALL_HIT_PENALTY
    + l.atk_hits * CAR_COLLISION_ATTACKER_PENALTY
    + (IF CORNER_CUT_VOID_LAP THEN 0 ELSE l.corner_cuts * CORNER_CUT_PENALTY)
    + (IF l.overspeed THEN PIT_ZONE_OVERSPEED_PENALTY ELSE 0)

CountedBonus(l) == l.vic_hits * CAR_COLLISION_VICTIM_BONUS

ElpAt(l, raw) == elp([l EXCEPT !.raw_time = raw])

----------------------------------------------------------------------------
(* Properties of the collision engine, checked under SpecRace *)

CarEventsOf(evts, a, b) ==
    {i \in 1 .. Len(evts) :
        evts[i].type = "car" /\ {evts[i].attacker, evts[i].victim} = {a, b}}

WallEventsOf(evts, t) ==
    {i \in 1 .. Len(evts) : evts[i].type = "wall" /\ evts[i].car_id = t}

\* C9: for every pair of tags, any two car events the collision engine has
\* emitted for the pair, whichever of the two is the attacker, lie at least
\* CAR_COLLISION_COOLDOWN apart.
C9_CarCooldown ==
    \A a, b \in DOMAIN tags :
        \A i, j \in CarEventsOf(col.events, a, b) :
            i < j => col.events[j].time - col.events[i].time
                         >= CAR_COLLISION_COOLDOWN

\* C9's case: two car events of one pair exactly CAR_COLLISION_COOLDOWN
\* apart, the later one emitted by the last packet.
C9_Witness ==
    /\ call.op = "packet"
    /\ Len(new_evts) > 0
    /\ \E a, b \in DOMAIN tags :
          \E i, j \in CarEventsOf(col.events, a, b) :
              /\ j = Len(col.events)
              /\ col.events[j].time - col.events[i].time = CAR_COLLISION_COOLDOWN

\* the scoring engine between RaceManager.update and CollisionEngine.update
\* of the packet described by call' and tags'
ScoringBeforeCollision(c, tgs) ==
    race_update(c.tag, tgs[c.tag].x, tgs[c.tag].y, tgs[c.tag].speed_cms,
                clock).sc

\* C10: for every tag, any two wall events the collision engine has emitted
\* lie at least WALL_COLLISION_COOLDOWN apart; a frame emits at most one wall
\* event per tag, and each one adds exactly one wall_hits count and one
\* WALL_HIT_PENALTY to the tag's open lap (next to the attacker penalties of
\* the frame's car events), while a tag without a wall event gets neither.
C10_WallCooldown ==
    [][/\ \A t \in DOMAIN tags :
             \A i, j \in WallEventsOf(col'.events, t) :
                 i < j => col'.events[j].time - col'.events[i].time
                              >= WALL_COLLISION_COOLDOWN
       /\ call'.op = "packet" =>
             LET before == ScoringBeforeCollision(call', tags')
             IN \A t \in DOMAIN tags :
                    LET walls == Cardinality(WallEventsOf(new_evts', t))
                        attacks == Cardinality({i \in 1 .. Len(new_evts') :
                                       new_evts'[i].type = "car"
                                       /\ new_evts'[i].attacker = t})
                    IN /\ walls <= 1
                       /\ walls = 1 => t \in DOMAIN before.open
                       /\ DOMAIN scoring'.open = DOMAIN before.open
                       /\ t \in DOMAIN before.open =>
                             /\ scoring'.open[t].wall_hits
                                    = before.open[t].wall_hits + walls
                             /\ scoring'.open[t].pen
                                    = before.open[t].pen
                                      + walls * WALL_HIT_PENALTY
                                      + attacks * CAR_COLLISION_ATTACKER_PENALTY]_vars

\* C10's case: the last packet emitted a wall event for a tag one
\* WALL_COLLISION_COOLDOWN after its previous one, and the tag's open lap
\* carries both hits with the penalty admin_start configured.
C10_Witness ==
    /\ call.op = "packet"
    /\ WALL_HIT_PENALTY # WALL_HIT_PENALTY_DEFAULT
    /\ \E t \in DOMAIN scoring.open :
          /\ WallEventsOf(new_evts, t) # {}
          /\ scoring.open[t].wall_hits = 2
          /\ scoring.open[t].pen = 2 * WALL_HIT_PENALTY
          /\ \E i, j \in WallEventsOf(col.events, t) :
                col.events[j].time - col.events[i].time = WALL_COLLISION_COOLDOWN

----------------------------------------------------------------------------
(* Properties of the collision engine's frames, checked under SpecCollision *)

\* the frames' events emitted at or after time t0
WallEventsSince(evts, t, t0) ==
    {i \in WallEventsOf(evts, t) : evts[i].time >= t0}

CarEventsSince(evts, a, b, t0) ==
    {i \in CarEventsOf(evts, a, b) : evts[i].time >= t0}

\* the distance of tag t's last reported position to a wall of the track is
\* at most WALL_TOLERANCE_CM
AtWall(c, t) ==
    \/ dist_to_boundary_within(c.pos[t][1], c.pos[t][2], track.outer,
                               WALL_TOLERANCE_CM)
    \/ dist_to_boundary_within(c.pos[t][1], c.pos[t][2], track.inner,
                               WALL_TOLERANCE_CM)

\* C11: in a frame, a racing tag with no wall event in the last
\* WALL_COLLISION_COOLDOWN gets a wall event exactly when its distance to
\* the outer or to the inner polygon is at most WALL_TOLERANCE_CM, on a
\* track with an inner polygon and on one without.
C11_WallDetection ==
    [][call'.op = "col_update" =>
          \A t \in DOMAIN col'.racing :
              (col'.racing[t]
                  /\ WallEventsSince(col.events, t,
                         clock - WALL_COLLISION_COOLDOWN + 1) = {})
                  => (WallEventsOf(new_evts', t) # {} <=> AtWall(col', t))]_vars

\* C11 on a track that has an inner polygon.
C11_WallDetectionWithWidth ==
    [][(call'.op = "col_update" /\ has_width) =>
          \A t \in DOMAIN col'.racing :
              (col'.racing[t]
                  /\ WallEventsSince(col.events, t,
                         clock - WALL_COLLISION_COOLDOWN + 1) = {})
                  => (WallEventsOf(new_evts', t) # {} <=> AtWall(col', t))]_vars

CarEvents(evts) == {i \in 1 .. Len(evts) : evts[i].type = "car"}

\* C12: in every car event a frame emits, the attacker is the faster of the
\* two tags when their speeds differ by SPEED_DIFF_THRESHOLD or more and the
\* tag with the lower id otherwise; the victim is the other tag.
C12_AttackerArbitration ==
    [][call'.op = "col_update" =>
          \A i \in CarEvents(new_evts') :
              LET a == new_evts'[i].attacker
                  v == new_evts'[i].victim
                  sa == col'.speeds[a]
                  sv == col'.speeds[v]
              IN /\ a # v
                 /\ IF Abs(sa - sv) >= SPEED_DIFF_THRESHOLD
                    THEN sa > sv
                    ELSE a < v]_vars

\* C12's case: the last frame emitted a car event whose attacker is tag 0
\* although it is the slower tag, and the frame before one whose attacker
\* is tag 1, faster by exactly SPEED_DIFF_THRESHOLD.
C12_Witness ==
    /\ call.op = "col_update"
    /\ \E i \in CarEvents(new_evts) :
          /\ new_evts[i].attacker = 0
          /\ col.speeds[0] < col.speeds[1]
    /\ \E j \in CarEvents(col.events) :
          /\ col.events[j].attacker = 1
          /\ col.events[j].time < clock

----------------------------------------------------------------------------
(* Properties of the collision engine inside the program, checked under     *)
(* SpecRace                                                                 *)

AttacksOf(evts, t) == {i \in CarEvents(evts) : evts[i].attacker = t}
VictimOf(evts, t) == {i \in CarEvents(evts) : evts[i].victim = t}

\* C13: a packet's frame changes the open laps by its events and by nothing
\* else: each car event adds one atk_hits and CAR_COLLISION_ATTACKER_PENALTY
\* to the attacker's open lap and one vic_hits and
\* CAR_COLLISION_VICTIM_BONUS to the victim's (each wall event one
\* wall_hits and WALL_HIT_PENALTY); a frame without a car event, such as
\* one whose pair is in range inside its cooldown, changes no penalty,
\* bonus or count; no lap is opened or closed by the frame.
C13_CarEventScoresOnce ==
    [][call'.op = "packet" =>
          LET before == ScoringBeforeCollision(call', tags')
          IN /\ DOMAIN scoring'.open = DOMAIN before.open
             /\ scoring'.history = before.history
             /\ \A i \in CarEvents(new_evts') :
                    /\ new_evts'[i].attacker \in DOMAIN before.open
                    /\ new_evts'[i].victim \in DOMAIN before.open
             /\ \A t \in DOMAIN before.open :
                    LET attacks == Cardinality(AttacksOf(new_evts', t))
                        hits == Cardinality(VictimOf(new_evts', t))
                        walls == Cardinality(WallEventsOf(new_evts', t))
                    IN scoring'.open[t] =
                           [before.open[t] EXCEPT
                               !.atk_hits = @ + attacks,
                               !.vic_hits = @ + hits,
                               !.wall_hits = @ + walls,
                               !.pen = @ + attacks * CAR_COLLISION_ATTACKER_PENALTY
                                         + walls * WALL_HIT_PENALTY,
                               !.bon = @ + hits * CAR_COLLISION_VICTIM_BONUS]]_vars

\* C13's case: the last packet, at the same place as the other racing tag
\* one tick after their car event, emitted no car event; the attacker's lap
\* carries one attacker penalty and the victim's one bonus, as admin_start
\* configured them.
C13_Witness ==
    /\ call.op = "packet"
    /\ CarEvents(new_evts) = {}
    /\ CAR_COLLISION_ATTACKER_PENALTY # CAR_COLLISION_ATTACKER_PENALTY_DEFAULT
    /\ \E i \in CarEvents(col.events) :
          LET a == col.events[i].attacker
              v == col.events[i].victim
          IN /\ col.events[i].time = clock - 1
             /\ a \in DOMAIN scoring.open /\ v \in DOMAIN scoring.open
             /\ engines[a].is_racing /\ engines[v].is_racing
             /\ tags[a].x = tags[v].x /\ tags[a].y = tags[v].y
             /\ tags[call.tag].last_update = clock
             /\ scoring.open[a].atk_hits = 1
             /\ scoring.open[a].pen >= CAR_COLLISION_ATTACKER_PENALTY
             /\ scoring.open[v].vic_hits = 1
             /\ scoring.open[v].bon = CAR_COLLISION_VICTIM_BONUS

----------------------------------------------------------------------------
(* Properties of ghosting and of pair detection, checked under SpecGhost    *)

\* tag t's speed has been below the ghost speed in every frame for more
\* than GHOSTING_TIME_THRESHOLD
Ghosted(since, t, now) ==
    since[t] # NoneT /\ now - since[t] > GHOSTING_TIME_THRESHOLD

InRange(c, a, b) ==
    (c.pos[a][1] - c.pos[b][1]) * (c.pos[a][1] - c.pos[b][1])
        + (c.pos[a][2] - c.pos[b][2]) * (c.pos[a][2] - c.pos[b][2])
        <= CAR_COLLISION_DISTANCE_CM * CAR_COLLISION_DISTANCE_CM

\* C14: in a frame, a pair of racing tags, neither of them ghosted, at most
\* CAR_COLLISION_DISTANCE_CM apart and without a car event in the last
\* CAR_COLLISION_COOLDOWN gets exactly one car event; a tag that is not
\* racing is in no car event, gets no wall event and its open lap is left
\* as it was.
C14_PairDetection ==
    [][call'.op = "col_update" =>
          /\ \A a, b \in DOMAIN col'.racing :
                (/\ a < b
                 /\ col'.racing[a] /\ col'.racing[b]
                 /\ ~Ghosted(slow_since', a, clock)
                 /\ ~Ghosted(slow_since', b, clock)
                 /\ InRange(col', a, b)
                 /\ CarEventsSince(col.events, a, b,
                        clock - CAR_COLLISION_COOLDOWN + 1) = {})
                    => Cardinality(CarEventsOf(new_evts', a, b)) = 1
          /\ \A t \in DOMAIN col'.racing :
                ~col'.racing[t] =>
                    /\ AttacksOf(new_evts', t) = {}
                    /\ VictimOf(new_evts', t) = {}
                    /\ WallEventsOf(new_evts', t) = {}
                    /\ t \in DOMAIN scoring.open =>
                           /\ t \in DOMAIN scoring'.open
                           /\ scoring'.open[t] = scoring.open[t]]_vars

\* C15: in a frame, a racing tag whose speed has been below the ghost speed
\* in every frame for more than GHOSTING_TIME_THRESHOLD is in no car event.
C15_GhostSuppressed ==
    [][call'.op = "col_update" =>
          \A t \in DOMAIN col'.racing :
              (col'.racing[t] /\ Ghosted(slow_since', t, clock))
                  => AttacksOf(new_evts', t) \cup VictimOf(new_evts', t) = {}]_vars

\* C16: after a frame in which a tag's speed is at or above the ghost
\* speed, the tag has no ghost timer.
C16_FastClearsTimer ==
    call.op = "col_update" =>
        \A t \in DOMAIN col.speeds :
            ~below_ghost_speed(col, t) => t \notin DOMAIN col.ghost_t

----------------------------------------------------------------------------
(* Properties of the admin commands, checked under SpecAdmin                *)

\* what a field of an admin_start payload configures: its value when it is
\* a positive number, the default otherwise
Configured(p, field, default) ==
    IF field \notin p.text /\ p[field] > 0 THEN p[field] ELSE default

ConfiguredBy(p) ==
    /\ TOTAL_LAPS' = Configured(p, "total_laps", TOTAL_LAPS_DEFAULT)
    /\ WALL_HIT_PENALTY' = Configured(p, "wall", WALL_HIT_PENALTY_DEFAULT)
    /\ CAR_COLLISION_ATTACKER_PENALTY' =
           Configured(p, "atk", CAR_COLLISION_ATTACKER_PENALTY_DEFAULT)
    /\ CAR_COLLISION_VICTIM_BONUS' =
           Configured(p, "vic", CAR_COLLISION_VICTIM_BONUS_DEFAULT)

\* C17: admin_start leaves each of TOTAL_LAPS, WALL_HIT_PENALTY,
\* CAR_COLLISION_ATTACKER_PENALTY and CAR_COLLISION_VICTIM_BONUS at the
\* payload's value when that is a positive number and at the default
\* otherwise, whatever an earlier admin_start left; get_stats reports the
\* four values as they are; a wall event of a packet adds WALL_HIT_PENALTY
\* as it is to the tag's open lap.
C17_ConfigMerge ==
    [][/\ \A p \in ConfigPayloads : CmdAdminStart(p) => ConfiguredBy(p)
       /\ CmdGetStats =>
              /\ stats'.total_laps = TOTAL_LAPS
              /\ stats'.race_config.wall_hit_penalty = WALL_HIT_PENALTY
              /\ stats'.race_config.attacker_penalty = CAR_COLLISION_ATTACKER_PENALTY
              /\ stats'.race_config.victim_bonus = CAR_COLLISION_VICTIM_BONUS
       /\ call'.op = "packet" =>
              \A t \in DOMAIN ScoringBeforeCollision(call', tags').open :
                  WallEventsOf(new_evts', t) # {} =>
                      scoring'.open[t].pen =
                          ScoringBeforeCollision(call', tags').open[t].pen
                              + WALL_HIT_PENALTY]_vars

InvalidField(p) == p.total_laps <= 0 \/ p.text # {}

\* C18: an admin_start whose payload has a non-positive total_laps or a
\* non-numeric penalty or bonus leaves that field at its default and the
\* others at the payload's values, resets the race, arms every lap engine,
\* sets race_armed and broadcasts the race_armed admin_event.
C18_InvalidFieldCompletes ==
    [][\A p \in ConfigPayloads :
          (InvalidField(p) /\ CmdAdminStart(p)) =>
              /\ ConfiguredBy(p)
              /\ \A t \in DOMAIN engines' :
                     engines'[t] = arm(LapEngineInit)
              /\ scoring' = ScoringInit
              /\ race' = RaceInit
              /\ race_armed'
              /\ admin_event' = "race_armed"]_vars

----------------------------------------------------------------------------
(* Properties of the reset command, checked under SpecRace                  *)

C20_ResetIdempotent ==
    call.op = "reset" =>
        /\ engines = race_reset_engines
        /\ scoring = scoring_reset(scoring)
        /\ race = RaceInit
        /\ col = col_reset(col)
        /\ tags = [t \in DOMAIN tags |-> tag_reset(tags[t])]
        /\ race_armed = FALSE
        /\ tag_to_gp = <<>>
        /\ TOTAL_LAPS = TOTAL_LAPS_DEFAULT
        /\ WALL_HIT_PENALTY = WALL_HIT_PENALTY_DEFAULT
        /\ CAR_COLLISION_ATTACKER_PENALTY = CAR_COLLISION_ATTACKER_PENALTY_DEFAULT
        /\ CAR_COLLISION_VICTIM_BONUS = CAR_COLLISION_VICTIM_BONUS_DEFAULT
        /\ emitted = [t \in DOMAIN emitted |-> <<>>]

\* C20's case: a reset after a race in which both tags were seen and the
\* configuration had been changed by admin_start: the tags keep their last
\* position, the collision engine its last snapshot.
C20_Witness ==
    /\ call.op = "reset"
    /\ frames = MaxFrames
    /\ \A t \in Tags : tags[t].last_update > MIN_LAP_TIME /\ t \in DOMAIN col.pos
    /\ \E t \in Tags : col.laps[t] >= 1

----------------------------------------------------------------------------
(* admin_start, checked under SpecAdmin                                     *)

\* C21: after an admin_start command, whatever the state it arrived in,
\* every registered lap engine is armed, not racing, not finished, with
\* laps_done = 0 and current_lap = 0, the scoring engine has no open lap and
\* no history, race_active is false and race_armed is true.
C21_AdminStartArms ==
    call.op = "admin_start" =>
        /\ \A t \in DOMAIN engines :
              /\ engines[t].admin_armed
              /\ ~engines[t].is_racing
              /\ ~engines[t].race_finished
              /\ engines[t].laps_done = 0
              /\ engines[t].current_lap = 0
        /\ scoring.open = <<>>
        /\ scoring.history = <<>>
        /\ ~race.race_active
        /\ race_armed

----------------------------------------------------------------------------
(* The two threads, checked under SpecThreads                               *)

\* the UDP thread is between two packets and the admin handler between two
\* commands
Quiescent == threads.udp = "recv" /\ threads.admin = "idle"

\* C22: whenever no packet and no admin command is being processed, a tag
\* has an open LapScore only if its lap engine is racing and each engine's
\* laps_done is the length of its tag's scoring history; when a reset
\* command has just completed, the scoring history holds no lap.
C22_SingleWriter ==
    /\ Quiescent =>
          \A t \in DOMAIN engines :
              /\ t \in DOMAIN scoring.open => engines[t].is_racing
              /\ engines[t].laps_done = Len(history_of(scoring, t))
    /\ (call.op = "reset" /\ threads.admin = "idle") =>
          \A t \in DOMAIN engines : history_of(scoring, t) = <<>>

----------------------------------------------------------------------------
(* The fan-out, checked under SpecFanout                                   *)

\* C23: a broadcast that ends has not raised, every client that was in the
\* set from its start to its end was sent the message, and every client
\* whose send raised has left the set.
C23_FanOutIsolation ==
    net.done # <<>> =>
        /\ ~net.done.raised
        /\ net.done.missed = {}
        /\ net.done.dead \cap net.clients = {}

\* a broadcast is suspended in a send while clients of the set have not
\* been sent its message yet
Stalled ==
    \E j \in DOMAIN net.tasks :
        /\ net.tasks[j].pc = "send"
        /\ net.clients \ net.tasks[j].seen # {}

\* C24: a broadcast suspended in the send to one client does not keep the
\* message from the others for ever: the send is given up or completes, and
\* the clients after it are sent the message.
C24_NoStall == Stalled ~> ~Stalled

\* C25: a client that was connected when a datagram arrived and that was
\* sent the state_update of its frame was sent the tag_position of that
\* frame before.
C25_PositionBeforeState ==
    \A c \in Clients : \A i \in DOMAIN net.inbox[c] :
        LET m == net.inbox[c][i]
        IN (m.type = "state_update" /\ m.frame # NoneT /\ net.since[c] < m.frame) =>
               \E j \in 1..(i - 1) :
                   net.inbox[c][j] = Message("tag_position", m.frame)

\* C26: after every datagram the total of bridge_stats is the sum of the
\* datagrams counted valid and the datagrams counted invalid.
C26_EveryDatagramCounted ==
    net.udp_packets_total = net.udp_packets_valid + net.udp_packets_invalid

\* a step in which udp_receiver accepted a datagram, and one in which it
\* rejected a datagram
Accepted == net'.udp_packets_valid = net.udp_packets_valid + 1
Rejected ==
    /\ net'.udp_packets_total = net.udp_packets_total + 1
    /\ net'.udp_packets_valid = net.udp_packets_valid

\* the broadcasts of the frame accepted last, as they are scheduled
QueuedFor(frame, events) ==
    IF events = <<>> THEN <<Task(Message("tag_position", frame))>>
    ELSE <<Task(Message("tag_position", frame)),
           Task(Message("state_update", frame))>>

\* C27 as stated: every accepted datagram schedules one tag_position and,
\* behind it, a state_update exactly when the frame has a race or collision
\* event; a rejected datagram schedules nothing.
C27_QueuedPerPacket ==
    [][/\ Accepted =>
             net'.tasks = net.tasks \o QueuedFor(frames', returned' \o new_evts')
       /\ Rejected => net'.tasks = net.tasks]_vars

\* C27 amended: that holds for a datagram accepted while a client is
\* connected; one accepted while no client is connected schedules nothing.
C27_QueuedWhileConnected ==
    [][/\ (Accepted /\ net.clients # {}) =>
             net'.tasks = net.tasks \o QueuedFor(frames', returned' \o new_evts')
       /\ (Accepted /\ net.clients = {}) => net'.tasks = net.tasks
       /\ Rejected => net'.tasks = net.tasks]_vars

\* a frame with an event was accepted while a client was connected, and its
\* two broadcasts wait to be started
C27_Witness ==
    /\ call.op = "packet"
    /\ returned \o new_evts # <<>>
    /\ Len(net.tasks) >= 2
    /\ net.tasks[Len(net.tasks) - 1] = Task(Message("tag_position", frames))
    /\ net.tasks[Len(net.tasks)] = Task(Message("state_update", frames))

----------------------------------------------------------------------------
(* The leaderboard and the feed, checked under SpecBoard and SpecScoring   *)

\* C28: the leaderboard has one row for exactly the tags with a closed lap
\* that is not void; the best lap of a row is a lap of that tag, not void,
\* whose (ELP, instant of closing) is least among them; and from one row to
\* the next (best_elp, best_lap) does not decrease.
C28_Leaderboard ==
    LET board == get_leaderboard(scoring)
        ranked == {t \in DOMAIN engines : valid_laps(history_of(scoring, t)) # <<>>}
    IN /\ {board[i].car_id : i \in DOMAIN board} = ranked
       /\ Len(board) = Cardinality(ranked)
       /\ \A i \in DOMAIN board :
             LET valid == valid_laps(history_of(scoring, board[i].car_id))
             IN \E k \in DOMAIN valid :
                   /\ valid[k].lap_number = board[i].best_lap
                   /\ elp(valid[k]) = board[i].best_elp
                   /\ \A j \in DOMAIN valid :
                         TupleLE(elp(valid[k]), valid[k].closed_at,
                                 elp(valid[j]), valid[j].closed_at)
       /\ \A i \in 1..(Len(board) - 1) :
             TupleLE(board[i].best_elp, board[i].best_lap,
                     board[i + 1].best_elp, board[i + 1].best_lap)

\* both tags are ranked, the tag whose lap was closed second first, and a
\* tag has two laps that are not void, of one ELP, closed at different
\* instants
C28_Witness ==
    LET board == get_leaderboard(scoring)
    IN /\ Len(board) = 2
       /\ board # board_rows(scoring)
       /\ \E t \in DOMAIN engines :
             LET valid == valid_laps(history_of(scoring, t))
             IN /\ Len(valid) = 2
                /\ valid[1].closed_at # valid[2].closed_at
                /\ elp(valid[1]) = elp(valid[2])

\* C30: the feed is a bounded ring: however many lap closes, wall hits and
\* car collisions there were, it holds fewer entries than the MaxScoreOps
\* calls the scoring engine is given, the oldest having been dropped, and
\* get_feed(n) returns its last n entries in the order they were appended.
C30_FeedBounded ==
    /\ Len(scoring.feed) < MaxScoreOps
    /\ \A n \in 1..MaxScoreOps :
          LET got == get_feed(scoring, n)
              skip == Len(scoring.feed) - Len(got)
          IN /\ Len(got) = IF Len(scoring.feed) < n THEN Len(scoring.feed) ELSE n
             /\ \A i \in DOMAIN got : got[i] = scoring.feed[skip + i]

----------------------------------------------------------------------------
(* The race clock, checked under SpecLap                                   *)

\* the event RaceManager.update returns in this step is of that type
Returns(type) ==
    call'.op = "update" /\ returned' # <<>> /\ returned'[1].type = type

\* C29: in RaceManager.update, the first race_start of a race sets
\* race_active and records race_start_time, which no later update changes;
\* race_active is cleared and race_end_time recorded exactly when a
\* race_finish leaves every engine finished; and once the race has ended no
\* update sets race_active again.
C29_RaceClock ==
    [][call'.op = "update" =>
          /\ (Returns("race_start") /\ race.race_start_time = NoneT) =>
                (race'.race_active /\ race'.race_start_time = clock)
          /\ race.race_start_time # NoneT =>
                race'.race_start_time = race.race_start_time
          /\ (Returns("race_finish")
                /\ \A t \in DOMAIN engines' : engines'[t].race_finished) =>
                (~race'.race_active /\ race'.race_end_time = clock)
          /\ race'.race_end_time # race.race_end_time =>
                (Returns("race_finish")
                   /\ \A t \in DOMAIN engines' : engines'[t].race_finished)
          /\ race.race_end_time # NoneT => ~race'.race_active]_vars

----------------------------------------------------------------------------
(* The scoring engine without an open lap, checked under SpecScoring       *)

\* the open LapScores of the tags other than those in keep are what they were
SameOpenBut(keep) ==
    /\ DOMAIN scoring'.open = DOMAIN scoring.open
    /\ \A t \in DOMAIN scoring.open \ keep : scoring'.open[t] = scoring.open[t]

\* C31: wall_hit, corner_cut and overspeed for a tag without an open
\* LapScore change nothing of the scoring engine; car_collision changes
\* nothing when neither the attacker nor the victim has an open LapScore,
\* and when only one of them has one no other LapScore and no history.
C31_SilentWithoutOpenLap ==
    [][/\ (call'.op \in {"wall_hit", "corner_cut", "overspeed"}
             /\ call'.tag \notin DOMAIN scoring.open) => scoring' = scoring
       /\ (call'.op = "car_collision"
             /\ call'.tag \notin DOMAIN scoring.open
             /\ call'.other \notin DOMAIN scoring.open) => scoring' = scoring
       /\ (call'.op = "car_collision"
             /\ (call'.tag \in DOMAIN scoring.open) # (call'.other \in DOMAIN scoring.open)) =>
                /\ scoring'.history = scoring.history
                /\ SameOpenBut({call'.tag, call'.other} \cap DOMAIN scoring.open)]_vars

\* C32: close_lap for a tag without an open LapScore adds one LapScore to
\* the history of the tag, of lap number 0 and of raw time zero.
C32_CloseWithoutOpenLap ==
    [][(call'.op = "close_lap" /\ call'.tag \notin DOMAIN scoring.open) =>
          LET h == history_of(scoring', call'.tag)
          IN /\ Len(h) = Len(history_of(scoring, call'.tag)) + 1
             /\ h[Len(h)].lap_number = 0
             /\ h[Len(h)].raw_time = 0]_vars

----------------------------------------------------------------------------
(* The pit zone, checked under SpecLap                                     *)

\* every LapScore of the scoring engine, open or closed
AllLapScores ==
    {scoring.open[t] : t \in DOMAIN scoring.open}
        \cup UNION {{scoring.history[t][i] : i \in DOMAIN scoring.history[t]} :
                       t \in DOMAIN scoring.history}

\* C33: a LapScore holds PIT_ZONE_OVERSPEED_PENALTY at most once, beside
\* its corner cuts, and only a LapScore of lap 1 holds it.
C33_PitOverspeedOnce ==
    \A l \in AllLapScores :
        /\ l.overspeed => l.lap_number = 1
        /\ (l.wall_hits = 0 /\ l.atk_hits = 0) =>
              l.pen = (IF CORNER_CUT_VOID_LAP THEN 0
                       ELSE l.corner_cuts * CORNER_CUT_PENALTY)
                      + (IF l.overspeed THEN PIT_ZONE_OVERSPEED_PENALTY ELSE 0)

\* lap 1 was closed with the overspeed penalty and lap 2, open, has none
C33_Witness ==
    \E t \in DOMAIN scoring.open :
        /\ scoring.open[t].lap_number = 2
        /\ ~scoring.open[t].overspeed
        /\ scoring.open[t].pen = 0
        /\ \E i \in DOMAIN history_of(scoring, t) :
              LET l == history_of(scoring, t)[i]
              IN l.lap_number = 1 /\ l.overspeed
                 /\ l.pen = PIT_ZONE_OVERSPEED_PENALTY

----------------------------------------------------------------------------
(* Persistence, checked under SpecPersist                                  *)

\* the tags whose history has a lap more after the step
ClosedInStep ==
    {t \in DOMAIN scoring'.history :
        Len(scoring'.history[t]) = Len(history_of(scoring, t)) + 1}

\* C34: the end of a submission, whatever its outcome, changes nothing of
\* the scoring engine, the lap engines, the race and the events; and an
\* update that closes a lap appends the lap to the history and a line to
\* the feed and returns its lap event with or without a gp_id for the tag,
\* the submission, when there is one, still being in flight.
C34_PersistenceSilent ==
    [][/\ Len(net'.posts) < Len(net.posts) =>
             UNCHANGED <<scoring, engines, race, returned, emitted>>
       /\ \A t \in ClosedInStep :
             /\ call'.op = "update" /\ call'.tag = t
             /\ Len(scoring'.feed) = Len(scoring.feed) + 1
             /\ returned' # <<>>
             /\ returned'[1].type \in {"lap_done", "race_finish"}
             /\ returned'[1].raw_time =
                   scoring'.history[t][Len(scoring'.history[t])].raw_time
             /\ net'.posts =
                   IF t \in DOMAIN tag_to_gp
                   THEN Append(net.posts,
                               [gp_id |-> tag_to_gp[t],
                                lap_number |-> returned'[1].lap])
                   ELSE net.posts]_vars

\* two laps of a mapped tag are closed: the submission of the first has
\* ended and the submission of the second is in flight
C34_Witness ==
    /\ 0 \in DOMAIN tag_to_gp
    /\ Len(history_of(scoring, 0)) = 2
    /\ Len(net.posts) = 1
    /\ net.posts[1].lap_number = 2
    /\ call.op = "update"
    /\ returned # <<>>

----------------------------------------------------------------------------
(* The acknowledgement of a reset, checked under SpecThreads               *)

\* what get_state reads of the race is what the reset command leaves
RaceStateReset ==
    /\ \A t \in DOMAIN engines :
          /\ engines[t].laps_done = 0
          /\ engines[t].current_lap = 0
          /\ ~engines[t].is_racing
    /\ scoring.history = <<>>
    /\ scoring.open = <<>>
    /\ ~race.race_active
    /\ ~race_armed
    /\ col.events = <<>>
    /\ tag_to_gp = <<>>
    /\ TOTAL_LAPS = TOTAL_LAPS_DEFAULT

\* C35: when the reset command broadcasts race_reset, the race manager,
\* the collision engine, the tags, the persistence map and the
\* configuration are all reset, so that a get_state answered from then on
\* reads no race state from before the reset.
C35_ResetBeforeAck ==
    [][threads.admin = "reset" /\ threads'.admin = "idle" =>
          admin_event' = "race_reset" /\ RaceStateReset']_vars

----------------------------------------------------------------------------
(* The order of the crossing guards, checked under SpecLap                 *)

\* C36: a crossing of an engine that is neither racing nor armed leaves
\* last_cross as it was, and so starts no cooldown for a crossing made
\* after the engine is armed.
C36_IgnoredCrossingNoCooldown ==
    [][\A t \in DOMAIN engines :
          (/\ call'.op = "update" /\ call'.tag = t /\ call'.crossing
           /\ ~engines[t].is_racing
           /\ ~engines[t].admin_armed)
          => engines'[t].last_cross = engines[t].last_cross]_vars

----------------------------------------------------------------------------
(* The client set under iteration, checked under SpecFanout                *)

\* a broadcast is suspended in a send
Suspended == \E j \in DOMAIN net.tasks : net.tasks[j].pc = "send"

\* C37: a broadcast that was suspended in a send and ends when it is
\* resumed has not been aborted, and every client that stayed in the set
\* from its start to its end was sent the message, whatever connected or
\* disconnected in between.
C37_SetStableUnderIteration ==
    [][(Suspended /\ net'.done # <<>> /\ Len(net'.tasks) < Len(net.tasks)) =>
          /\ ~net'.done.raised
          /\ net'.done.missed = {}]_vars

----------------------------------------------------------------------------
(* Engine and scoring in step, checked under SpecLap                       *)

\* C38: with packets and admin commands run one at a time, every tag has
\* an open LapScore exactly when its engine is racing, that LapScore bears
\* the engine's current_lap, and the engine's laps_done is the number of
\* LapScores in the tag's scoring history.
C38_EngineScoringInStep ==
    \A t \in DOMAIN engines :
        /\ t \in DOMAIN scoring.open <=> engines[t].is_racing
        /\ t \in DOMAIN scoring.open =>
              scoring.open[t].lap_number = engines[t].current_lap
        /\ engines[t].laps_done = Len(history_of(scoring, t))

\* a tag is racing its second lap, the first one closed and in the history
C38_Witness ==
    \E t \in DOMAIN engines :
        /\ engines[t].is_racing
        /\ engines[t].laps_done = 1
        /\ t \in DOMAIN scoring.open
        /\ scoring.open[t].lap_number = 2
        /\ Len(history_of(scoring, t)) = 1

----------------------------------------------------------------------------
(* The collision engine across admin_start, checked under SpecRace         *)

\* C39: when an admin_start has just been handled, state_update reports no
\* wall hit and no car collision for any tag, and the collision engine
\* holds no pair cooldown and no wall cooldown.
C39_AdminStartClearsCollisions ==
    call.op = "admin_start" =>
        /\ \A t \in DOMAIN tags :
              /\ Cardinality(wall_hits(col, t)) = 0
              /\ Cardinality(car_events(col, t)) = 0
        /\ col.car_cd = <<>>
        /\ col.wall_cd = <<>>

----------------------------------------------------------------------------
(* The detection of a crossing, checked under SpecCross                    *)

\* C40: in the update of a packet, _handle_crossing runs (an event is
\* returned or last_cross moves) only if the side of the new position
\* differs from the stored side and the position lies in the band of the
\* line, and it runs whenever that is so and the cooldown is over; after the
\* update the stored side is the side of the new position; and an update
\* of an engine with no stored side returns nothing and leaves last_cross
\* and is_racing as they were.
C40_CrossingDetection ==
    [][\A t \in DOMAIN engines :
          (call'.op = "packet" /\ call'.tag = t /\ is_active(tags'[t], clock)) =>
             LET e == engines[t]
                 e2 == engines'[t]
                 x == tags'[t].x
                 y == tags'[t].y
                 crossed == e.side # "None" /\ e.side # get_side(x, y)
                 in_bounds == within_bounds(x, y)
             IN /\ e2.side = get_side(x, y)
                /\ (returned' # <<>> \/ e2.last_cross # e.last_cross) =>
                      crossed /\ in_bounds
                /\ (crossed /\ in_bounds /\ clock - e.last_cross >= MIN_LAP_TIME) =>
                      e2.last_cross = clock
                /\ e.side = "None" =>
                      /\ returned' = <<>>
                      /\ e2.last_cross = e.last_cross
                      /\ e2.is_racing = e.is_racing]_vars

\* a packet out of the band has just been processed for a racing tag: no
\* crossing was detected, the stored side is the side of its position, and
\* no event was returned
C40_Witness ==
    \E t \in DOMAIN engines :
        /\ call.op = "packet" /\ call.tag = t /\ ~call.crossing
        /\ ~within_bounds(tags[t].x, tags[t].y)
        /\ engines[t].is_racing
        /\ engines[t].side = get_side(tags[t].x, tags[t].y)
        /\ engines[t].side = "False"
        /\ engines[t].lap_start = engines[t].last_cross
        /\ returned = <<>>

====
